---- MODULE Spec2Model ----
(***************************************************************************)
(* RunPod WebSocket TTS service (src/runpod_tts/runpod_ws_service.py):     *)
(* the client registry, the single upstream (Fly.io) link, the idle sweep  *)
(* and the streaming pipeline (producer thread + consumer generator).      *)
(*                                                                         *)
(* Scheduling: every coroutine runs on one asyncio event loop, so a        *)
(* handler runs atomically from one await to the next.  The awaits are     *)
(* accept(), receive_text(), send_text()/send_bytes(), close() and         *)
(* sleep().  Iterating the streamer and thread.join() are synchronous      *)
(* calls made on the event-loop thread: while one of them waits, no other  *)
(* coroutine runs (LoopBlocked).  The generation producer is a real        *)
(* thread and runs in parallel with the loop.                              *)
(***************************************************************************)
EXTENDS Integers, Sequences, FiniteSets, TLC

None == "None"

\* ---------------------------------------------------------------- bounds
MaxTime == 15        \* the clock stops here
TickStep == 5        \* seconds per clock step
MaxSegments == 3     \* segments one generation emits at most (the final one included)
MaxRequests == 2     \* tts_request messages handled in a run
MaxDirectTextLen == 2   \* characters in the text of a direct request
MaxDirectMessages == 2  \* messages a direct connection receives in a run
MaxTextLen == 5         \* characters in a text given to chunk_text
MaxWords == 2           \* the largest max_words given to chunk_text
MaxSentences == 3       \* sentences in a text given to a synthesis method
MaxTextWords == 22      \* words in a text given to a synthesis method

\* ------------------------------------------------------ program constants
timeout_seconds == 10   \* cleanup_task: cleanup_idle_connections(timeout_seconds=10)
batch_max_words == 20   \* batch_synthesis: self.chunk_text(text, max_words=20)

\* ------------------------------------------------------------- universes
Clients == {"A", "B"}
ClientSockets == {"s1", "s2", "s3"}
FlySockets == {"f1", "f2"}

\* The client_id path parameter of the /client/{client_id} connection s.
PathClientId(s) == IF s = "s2" THEN "B" ELSE "A"

VARIABLES
    now,                  \* time.time()
    sock,                 \* transport state of every websocket
    client_connections,   \* ClientConnectionManager.client_connections (dict)
    connection_times,     \* ClientConnectionManager.connection_times (dict)
    key_order,            \* insertion order of connection_times' keys
    fly_connection,       \* FlyConnectionManager.fly_connection
    connection_time,      \* FlyConnectionManager.connection_time (<<>> is None)
    cpc,                  \* client_websocket_endpoint: where each handler is
    csock,                \* the socket a client handler's send is suspended on
    fpc,                  \* fly_websocket_endpoint: where each handler is
    fsock,                \* the socket a fly handler's send_to_fly is suspended on
    req,                  \* handle_tts_request: the locals of the call f is in
    pipe,                 \* stream_synthesis: the generator and its producer thread
    sent,                 \* history: what each request handed to which socket
    nreq,                 \* tts_request messages handled so far
    sweep,                \* cleanup_task / cleanup_idle_connections
    last_activity,        \* history: time of the last activity on a client socket
    idle_at_start,        \* history: <<client id, socket>> idle when the sweep began
    requested,            \* history: the tts_request taken last, and by which handler
    fly_returned,         \* history: what the last call of send_to_fly returned
    direct,               \* modal websocket_endpoint: one direct connection
    job,                  \* runpod_handler.handler: one serverless job
    chunker,              \* chunk_text: a call, its arguments and its result
    synth,                \* batch_synthesis / stream_synthesis: one call of the service
    predictor             \* Predictor.predict: one call, its generator and its thread

vars == <<now, sock, client_connections, connection_times, key_order,
          fly_connection, connection_time, cpc, csock, fpc, fsock, req, pipe,
          sent, nreq, sweep, last_activity, idle_at_start, requested, fly_returned,
          direct, job, chunker, synth, predictor>>

registry_vars == <<client_connections, connection_times, key_order>>
fly_vars == <<fly_connection, connection_time>>
chandler_vars == <<cpc, csock>>
fhandler_vars == <<fpc, fsock>>
request_vars == <<req, pipe, sent, nreq>>
standalone_vars == <<direct, job, chunker, synth, predictor>>

\* ------------------------------------------------------------ dict helpers
DictSet(d, k, v) == [x \in DOMAIN d \cup {k} |-> IF x = k THEN v ELSE d[x]]
DictDel(d, k) == [x \in DOMAIN d \ {k} |-> d[x]]
EmptyDict == [x \in {} |-> None]
SeqRemove(q, k) == SelectSeq(q, LAMBDA x: x # k)

\* The registry as one value, so that the methods are operators on it.
Registry == [cc |-> client_connections, ct |-> connection_times, ko |-> key_order]
SetRegistry(r) ==
    /\ client_connections' = r.cc
    /\ connection_times' = r.ct
    /\ key_order' = r.ko

\* ------------------------------------------- ClientConnectionManager methods
\* connect_client, after accept() returned.
connect_client(r, client_id, websocket, t) ==
    [cc |-> DictSet(r.cc, client_id, websocket),
     ct |-> DictSet(r.ct, client_id, t),
     ko |-> IF client_id \in DOMAIN r.ct THEN r.ko ELSE Append(r.ko, client_id)]

\* (mutant) the id is dropped from connection_times only
disconnect_client_times_only(r, client_id) ==
    [cc |-> r.cc,
     ct |-> DictDel(r.ct, client_id),
     ko |-> SeqRemove(r.ko, client_id)]

\* (mutant) the id is dropped from client_connections only
disconnect_client_connections_only(r, client_id) ==
    [cc |-> DictDel(r.cc, client_id), ct |-> r.ct, ko |-> r.ko]

\* (mutant) every entry is dropped
disconnect_client_all(r, client_id) ==
    [cc |-> EmptyDict, ct |-> EmptyDict, ko |-> <<>>]

disconnect_client(r, client_id) ==
    [cc |-> DictDel(r.cc, client_id),
     ct |-> DictDel(r.ct, client_id),
     ko |-> SeqRemove(r.ko, client_id)]

\* `client_id not in self.client_connections` of both send primitives.
Registered(r, client_id) == client_id \in DOMAIN r.cc

\* A socket send raises unless the socket is open: the peer is gone, or the
\* server has sent its close message.
SendSucceeds(s) == sock[s] = "open"

\* (mutant) the except branch does not unregister
AfterSend_keep(r, client_id, ok) == r

\* (mutant) the except branch unregisters every client
AfterSend_clear(r, client_id, ok) ==
    IF ok THEN r ELSE [cc |-> EmptyDict, ct |-> EmptyDict, ko |-> <<>>]

\* What a send primitive leaves of the registry when its socket send ends.
AfterSend(r, client_id, ok) == IF ok THEN r ELSE disconnect_client(r, client_id)

\* -------------------------------------------------------------- idle sweep
\* `(current_time - connect_time) > timeout_seconds`
IsIdle(current_time, connect_time, client_id) ==
    (current_time - connect_time) > timeout_seconds

\* The first loop of cleanup_idle_connections: connection_times.items() in
\* insertion order.
idle_clients(r, current_time) ==
    SelectSeq(r.ko, LAMBDA c: IsIdle(current_time, r.ct[c], c))

\* The second loop, up to its next await: ids no longer registered are skipped.
RECURSIVE SkipUnregistered(_, _)
SkipUnregistered(r, ids) ==
    IF ids = <<>> THEN <<>>
    ELSE IF Registered(r, Head(ids)) THEN ids
    ELSE SkipUnregistered(r, Tail(ids))

SweepSleeping == [pc |-> "sleep", ids |-> <<>>, closing |-> None]

\* The sweep runs on from registry r with ids left to visit: it suspends in
\* close() of the first registered one, or returns to cleanup_task's sleep.
SweepRun(r, ids) ==
    LET rest == SkipUnregistered(r, ids) IN
    IF rest = <<>>
    THEN /\ sweep' = SweepSleeping
         /\ sock' = sock
    ELSE /\ sweep' = [pc |-> "closing", ids |-> rest, closing |-> r.cc[Head(rest)]]
         /\ sock' = [sock EXCEPT ![r.cc[Head(rest)]] = "closed"]

\* ------------------------------------------------------------ event loop
\* A handler that iterates the streamer (queue.get) or sits in thread.join()
\* holds the event-loop thread: no other coroutine is resumed meanwhile.
LoopBlocked == \E f \in FlySockets : req[f].pc \in {"waiting", "joining"}

NoReq == [client_id |-> None, pc |-> "none", chunk_count |-> 0, sock |-> None,
          request_id |-> 0]
NoPipe == [thread |-> "none", queue |-> <<>>, emitted |-> 0, nonempty |-> 0,
           chunk_count |-> 0, gen |-> "none", exit |-> None]

(***************************************************************************)
(* Text: a Python str is a sequence of one-character strings.              *)
(***************************************************************************)
Whitespace == {" "}
Delimiters == {"."}            \* what the class [।|\.] of chunk_text matches

\* All strings of at most n characters over chars.
RECURSIVE Strings(_, _)
Strings(chars, n) ==
    IF n = 0 THEN {<<>>}
    ELSE LET shorter == Strings(chars, n - 1) IN
         shorter \cup {Append(s, c) : s \in shorter, c \in chars}

\* str.lstrip(), str.rstrip(), str.strip()
RECURSIVE LStrip(_)
LStrip(s) ==
    IF s # <<>> /\ Head(s) \in Whitespace THEN LStrip(Tail(s)) ELSE s

RECURSIVE RStrip(_)
RStrip(s) ==
    IF s # <<>> /\ s[Len(s)] \in Whitespace
    THEN RStrip(SubSeq(s, 1, Len(s) - 1)) ELSE s

\* (mutant) nothing is stripped
Strip_nothing(s) == s

Strip(s) == RStrip(LStrip(s))

\* str.split(): the maximal runs of non-whitespace characters
RECURSIVE SplitFrom(_, _, _)
SplitFrom(s, word, words) ==
    IF s = <<>>
    THEN IF word = <<>> THEN words ELSE Append(words, word)
    ELSE IF Head(s) \in Whitespace
         THEN SplitFrom(Tail(s), <<>>,
                        IF word = <<>> THEN words ELSE Append(words, word))
         ELSE SplitFrom(Tail(s), Append(word, Head(s)), words)

Split(s) == SplitFrom(s, <<>>, <<>>)

\* `not text`
IsEmptyStr(s) == s = <<>>

\* The programs beside the relay service, before anything has run.
NoDirect == [pc |-> "new", peer |-> "open", msg |-> None, text |-> <<>>,
             out |-> <<>>, invoked |-> 0, chunk_count |-> 0, nmsg |-> 0]
NoJob == [pc |-> "idle", text |-> <<>>, out |-> <<>>, invoked |-> 0,
          chunk_count |-> 0]
NoChunker == [pc |-> "idle", text |-> <<>>, max_words |-> 0, chunks |-> <<>>]

NoRequested == [f |-> None, client_id |-> None, text |-> <<>>]

\* runpod_ws_service after construction: nothing connected, nothing running
ServiceInit ==
    /\ now = 0
    /\ sock = [s \in ClientSockets \cup FlySockets |-> "new"]
    /\ client_connections = EmptyDict
    /\ connection_times = EmptyDict
    /\ key_order = <<>>
    /\ fly_connection = None
    /\ connection_time = <<>>
    /\ cpc = [s \in ClientSockets |-> "new"]
    /\ csock = [s \in ClientSockets |-> None]
    /\ fpc = [f \in FlySockets |-> "new"]
    /\ fsock = [f \in FlySockets |-> None]
    /\ req = [f \in FlySockets |-> NoReq]
    /\ pipe = [f \in FlySockets |-> NoPipe]
    /\ sent = [f \in FlySockets |-> <<>>]
    /\ nreq = 0
    /\ sweep = SweepSleeping
    /\ last_activity = [s \in ClientSockets |-> 0]
    /\ idle_at_start = {}
    /\ requested = NoRequested
    /\ fly_returned = None

NoSynth == [pc |-> "idle", method |-> None, text |-> <<>>, voice_key |-> None,
            voice_description |-> None, text_chunks |-> <<>>,
            engine_inputs |-> <<>>, generated |-> <<>>, all_audio_chunks |-> <<>>,
            final_audio |-> <<>>, result |-> None]

NoPredictor == [pc |-> "idle", thread |-> "none", joined |-> FALSE, queue |-> <<>>,
                emitted |-> 0, yielded |-> 0]

Init ==
    /\ ServiceInit
    /\ direct = NoDirect
    /\ job = NoJob
    /\ chunker = NoChunker
    /\ synth = NoSynth
    /\ predictor = NoPredictor

\* A successful send or a received message is activity on that socket.
Touch(s, ok) == IF ok THEN [last_activity EXCEPT ![s] = now] ELSE last_activity

\* ----------------------------------------------------------- environment
\* time passes
Tick ==
    /\ now + TickStep <= MaxTime
    /\ now' = now + TickStep
    /\ UNCHANGED <<sock, registry_vars, fly_vars, chandler_vars, fhandler_vars,
                   request_vars, sweep, last_activity, idle_at_start,
                   standalone_vars, requested, fly_returned>>

\* the peer of an open socket goes away
PeerDrop(s) ==
    /\ sock[s] = "open"
    /\ sock' = [sock EXCEPT ![s] = "gone"]
    /\ UNCHANGED <<now, registry_vars, fly_vars, chandler_vars, fhandler_vars,
                   request_vars, sweep, last_activity, idle_at_start,
                   standalone_vars, requested, fly_returned>>

\* (mutant) nothing falls through
Ignored_never(m) == FALSE

\* A message that parses and whose type matches no branch of the handler's
\* if/elif chain, which has no else.
Ignored(m) == m = "unknown"

\* ------------------------------------------------- client_websocket_endpoint
ClientMessages == {"ping", "status", "unknown", "malformed"}

\* accept() returns: connect_client registers the socket and the handler
\* suspends in the send of "connected".
ClientConnect(s) ==
    /\ ~LoopBlocked
    /\ cpc[s] = "new"
    /\ sock[s] = "new"
    /\ LET r == connect_client(Registry, PathClientId(s), s, now) IN
        /\ SetRegistry(r)
        /\ csock' = [csock EXCEPT ![s] = r.cc[PathClientId(s)]]
    /\ sock' = [sock EXCEPT ![s] = "open"]
    /\ cpc' = [cpc EXCEPT ![s] = "hello"]
    /\ last_activity' = [last_activity EXCEPT ![s] = now]
    /\ UNCHANGED <<now, fly_vars, fhandler_vars, request_vars, sweep, idle_at_start,
                   standalone_vars, requested, fly_returned>>

\* The send_text of send_to_client ends: True, or the except branch
\* (disconnect_client, False).  The handler goes on to receive_text().
ClientSendDone(s) ==
    /\ ~LoopBlocked
    /\ cpc[s] \in {"hello", "reply"}
    /\ LET ok == SendSucceeds(csock[s]) IN
        /\ SetRegistry(AfterSend(Registry, PathClientId(s), ok))
        /\ last_activity' = Touch(csock[s], ok)
    /\ cpc' = [cpc EXCEPT ![s] = "recv"]
    /\ csock' = [csock EXCEPT ![s] = None]
    /\ UNCHANGED <<now, sock, fly_vars, fhandler_vars, request_vars, sweep,
                   idle_at_start,
                   standalone_vars, requested, fly_returned>>

\* receive_text() returns message m.
ClientReceive(s, m) ==
    /\ ~LoopBlocked
    /\ cpc[s] = "recv"
    /\ sock[s] = "open"
    /\ last_activity' = [last_activity EXCEPT ![s] = now]
    /\ CASE m \in {"ping", "status"} ->
              \* send_to_client(client_id, "pong" / "status_response")
              /\ IF Registered(Registry, PathClientId(s))
                 THEN /\ cpc' = [cpc EXCEPT ![s] = "reply"]
                      /\ csock' = [csock EXCEPT ![s] = client_connections[PathClientId(s)]]
                 ELSE UNCHANGED chandler_vars
              /\ UNCHANGED <<sock, registry_vars>>
         [] Ignored(m) ->
              UNCHANGED <<sock, registry_vars, chandler_vars>>
         [] OTHER ->
              \* json.loads raises: except Exception, disconnect_client; the
              \* endpoint returns and the server drops the connection
              /\ SetRegistry(disconnect_client(Registry, PathClientId(s)))
              /\ cpc' = [cpc EXCEPT ![s] = "done"]
              /\ sock' = [sock EXCEPT ![s] = "gone"]
              /\ UNCHANGED csock
    /\ UNCHANGED <<now, fly_vars, fhandler_vars, request_vars, sweep, idle_at_start,
                   standalone_vars, requested, fly_returned>>

\* receive_text() raises WebSocketDisconnect.
ClientDisconnect(s) ==
    /\ ~LoopBlocked
    /\ cpc[s] = "recv"
    /\ sock[s] \in {"gone", "closed"}
    /\ SetRegistry(disconnect_client(Registry, PathClientId(s)))
    /\ cpc' = [cpc EXCEPT ![s] = "done"]
    /\ UNCHANGED <<now, sock, csock, fly_vars, fhandler_vars, request_vars, sweep,
                   last_activity, idle_at_start,
                   standalone_vars, requested, fly_returned>>

\* ------------------------------------- cleanup_task, cleanup_idle_connections
\* sleep(30) returns and the sweep runs to its first close(), or to the end.
SweepStart ==
    /\ ~LoopBlocked
    /\ sweep.pc = "sleep"
    /\ idle_at_start' =
         {<<c, client_connections[c]>> : c \in
            {x \in DOMAIN client_connections :
               now - last_activity[client_connections[x]] > timeout_seconds}}
    /\ SweepRun(Registry, idle_clients(Registry, now))
    /\ UNCHANGED <<now, registry_vars, fly_vars, chandler_vars, fhandler_vars,
                   request_vars, last_activity,
                   standalone_vars, requested, fly_returned>>

\* close() returns (or raises, which is swallowed): disconnect_client, then on
\* to the next idle id.
SweepCloseDone ==
    /\ ~LoopBlocked
    /\ sweep.pc = "closing"
    /\ LET r == disconnect_client(Registry, Head(sweep.ids)) IN
        /\ SetRegistry(r)
        /\ SweepRun(r, Tail(sweep.ids))
    /\ UNCHANGED <<now, fly_vars, chandler_vars, fhandler_vars, request_vars,
                   last_activity, idle_at_start,
                   standalone_vars, requested, fly_returned>>

\* ------------------------------------------------------ FlyConnectionManager
\* `if not self.fly_connection` of send_to_fly
FlyLinked == fly_connection # None

\* (mutant) disconnect_fly forgets the socket and keeps the time
disconnect_fly_keeps_time ==
    /\ fly_connection' = None
    /\ UNCHANGED connection_time

\* disconnect_fly
disconnect_fly ==
    /\ fly_connection' = None
    /\ connection_time' = <<>>

\* --------------------------------------------------------- stream_synthesis
Segments == {"ne", "z"}     \* a non-empty segment, a zero-length one

\* What is on the streamer's queue: the i-th segment generated, or the stop signal.
Segment(seg, i) == [seg |-> seg, i |-> i]
StopSignal == [seg |-> "stop", i |-> 0]

\* (mutant) last in, first out
Dequeue_lifo(queue) == <<queue[Len(queue)], SubSeq(queue, 1, Len(queue) - 1)>>

\* queue.get(): <<the item taken, the queue left>>, first in first out
Dequeue(queue) == <<Head(queue), Tail(queue)>>

\* thread.start(), then the generator runs to its first queue.get()
StartedPipe == [NoPipe EXCEPT !.thread = "running", !.gen = "running"]

\* (mutant) no join: the generator ends whatever the thread does
JoinReturns_at_once(thread) == TRUE

\* thread.join() returns once the producer thread has ended
JoinReturns(thread) == thread \in {"finished", "died"}

\* (mutant) the increment is skipped
NextChunkCount_same(chunk_count) == chunk_count

\* `chunk_count += 1` of the generator
NextChunkCount(chunk_count) == chunk_count + 1

\* (mutant) the streamer's queue holds one item: put blocks while it is full
QueueHasRoom_for_one(queue) == Len(queue) < 1

\* ParlerTTSStreamer's queue has no maximal size: put never blocks
QueueHasRoom(queue) == TRUE

\* model.generate puts a segment on the streamer's queue
ProducerEmit(f, seg) ==
    /\ pipe[f].thread = "running"
    /\ QueueHasRoom(pipe[f].queue)
    /\ pipe[f].emitted + 1 < MaxSegments
    /\ pipe' = [pipe EXCEPT ![f].queue = Append(@, Segment(seg, pipe[f].emitted + 1)),
                            ![f].emitted = @ + 1,
                            ![f].nonempty = IF seg = "ne" THEN @ + 1 ELSE @]
    /\ UNCHANGED <<now, sock, registry_vars, fly_vars, chandler_vars, fhandler_vars,
                   req, sent, nreq, sweep, last_activity, idle_at_start,
                   standalone_vars, requested, fly_returned>>

\* model.generate returns: streamer.end() puts what is left and the stop signal
ProducerEnd(f, seg) ==
    /\ pipe[f].thread = "running"
    /\ QueueHasRoom(pipe[f].queue)
    /\ pipe' = [pipe EXCEPT ![f].queue =
                               @ \o <<Segment(seg, pipe[f].emitted + 1), StopSignal>>,
                            ![f].emitted = @ + 1,
                            ![f].nonempty = IF seg = "ne" THEN @ + 1 ELSE @,
                            ![f].thread = "finished"]
    /\ UNCHANGED <<now, sock, registry_vars, fly_vars, chandler_vars, fhandler_vars,
                   req, sent, nreq, sweep, last_activity, idle_at_start,
                   standalone_vars, requested, fly_returned>>

\* model.generate raises inside the thread: the thread ends, nothing is put
ProducerDie(f) ==
    /\ pipe[f].thread = "running"
    /\ pipe' = [pipe EXCEPT ![f].thread = "died"]
    /\ UNCHANGED <<now, sock, registry_vars, fly_vars, chandler_vars, fhandler_vars,
                   req, sent, nreq, sweep, last_activity, idle_at_start,
                   standalone_vars, requested, fly_returned>>

\* -------------------------------------------------------- handle_tts_request
TtsClientIds == Clients \cup {None}
TtsTexts == Strings({"a", " "}, 1)      \* request_data.get("text", "")

\* One call of a send primitive for a request: the message kind, its number
\* (chunk_count), the generated segment a frame holds, the socket, the outcome.
Entry(kind, n, g, s, res) == [kind |-> kind, n |-> n, seg |-> g, sock |-> s, res |-> res]
Settle(log, ok) ==
    [log EXCEPT ![Len(log)].res = IF ok THEN "ok" ELSE "fail"]

\* The handler returns to the receive loop of fly_websocket_endpoint.
Return(f) ==
    /\ fpc' = [fpc EXCEPT ![f] = "recv"]
    /\ req' = [req EXCEPT ![f] = NoReq]

\* The generator is left for good (StopIteration, break inside it, an
\* exception, or close() when the handler's for loop drops it): its finally
\* block runs thread.join().  p is the generator's state on leaving, hcount the
\* handler's chunk_count.
LeaveGenerator(f, p, why, hcount) ==
    /\ req' = [req EXCEPT ![f].pc = "joining", ![f].sock = None,
                          ![f].chunk_count = hcount]
    /\ pipe' = [pipe EXCEPT ![f] = [p EXCEPT !.gen = "closing", !.exit = why]]

\* The control message that ends the request: tts_error after an exception
\* out of the generator, tts_stream_complete otherwise.
\* (mutant) the request ends with another tts_stream_start
TerminalKind_start(exit) == "start"

TerminalKind(exit) == IF exit = "encoding" THEN "error" ELSE "complete"


\* (mutant) the send goes to the connection registered last
Call_latest(kind, n, g, client_id) ==
    IF client_id \in DOMAIN client_connections
    THEN [kind |-> kind, n |-> n, seg |-> g,
          sock |-> client_connections[key_order[Len(key_order)]], res |-> "inflight"]
    ELSE [kind |-> kind, n |-> n, seg |-> g, sock |-> None, res |-> "fail"]

\* A send primitive called for client_id: suspended in the socket send when
\* the id is registered, False at once when it is not.
Call(kind, n, g, client_id) ==
    IF Registered(Registry, client_id)
    THEN Entry(kind, n, g, client_connections[client_id], "inflight")
    ELSE Entry(kind, n, g, None, "fail")

\* ---------------------------------------------------- fly_websocket_endpoint
FlyMessages == {"health_check", "get_connected_clients", "unknown", "malformed"}
\* those that send_to_fly is not called for
UnansweredFlyMessages == {"unknown", "malformed"}

\* accept() returns: connect_fly overwrites the link
FlyConnect(f) ==
    /\ ~LoopBlocked
    /\ fpc[f] = "new"
    /\ sock[f] = "new"
    /\ sock' = [sock EXCEPT ![f] = "open"]
    /\ fly_connection' = f
    /\ connection_time' = <<now>>
    /\ fpc' = [fpc EXCEPT ![f] = "recv"]
    /\ UNCHANGED <<now, registry_vars, chandler_vars, fsock, request_vars, sweep,
                   last_activity, idle_at_start,
                   standalone_vars, requested, fly_returned>>

\* receive_text() returns a message other than tts_request
FlyReceive(f, m) ==
    /\ ~LoopBlocked
    /\ fpc[f] = "recv"
    /\ sock[f] = "open"
    /\ CASE m \in {"health_check", "get_connected_clients"} ->
              \* send_to_fly: on whatever socket is the link now
              /\ IF FlyLinked
                 THEN /\ fpc' = [fpc EXCEPT ![f] = "reply"]
                      /\ fsock' = [fsock EXCEPT ![f] = fly_connection]
                      /\ UNCHANGED fly_returned
                 ELSE /\ fly_returned' = "False"
                      /\ UNCHANGED fhandler_vars
              /\ UNCHANGED <<sock, fly_vars>>
         [] Ignored(m) ->
              UNCHANGED <<sock, fly_vars, fhandler_vars, fly_returned>>
         [] OTHER ->
              \* json.loads raises: except Exception, disconnect_fly
              /\ disconnect_fly
              /\ fpc' = [fpc EXCEPT ![f] = "done"]
              /\ sock' = [sock EXCEPT ![f] = "gone"]
              /\ UNCHANGED <<fsock, fly_returned>>
    /\ UNCHANGED <<now, registry_vars, chandler_vars, request_vars, sweep,
                   last_activity, idle_at_start,
                   standalone_vars, requested>>

\* the send_text of send_to_fly ends
FlyReplyDone(f) ==
    /\ ~LoopBlocked
    /\ fpc[f] = "reply"
    /\ IF SendSucceeds(fsock[f])
       THEN fly_returned' = "True" /\ UNCHANGED fly_vars
       ELSE fly_returned' = "False" /\ disconnect_fly
    /\ fpc' = [fpc EXCEPT ![f] = "recv"]
    /\ fsock' = [fsock EXCEPT ![f] = None]
    /\ UNCHANGED <<now, sock, registry_vars, chandler_vars, request_vars, sweep,
                   last_activity, idle_at_start,
                   standalone_vars, requested>>

\* receive_text() raises WebSocketDisconnect
FlyDisconnect(f) ==
    /\ ~LoopBlocked
    /\ fpc[f] = "recv"
    /\ sock[f] = "gone"
    /\ disconnect_fly
    /\ fpc' = [fpc EXCEPT ![f] = "done"]
    /\ UNCHANGED <<now, sock, registry_vars, chandler_vars, fsock, request_vars,
                   sweep, last_activity, idle_at_start,
                   standalone_vars, requested, fly_returned>>

\* (mutant) the result of the tts_stream_start send is ignored
ProceedAfterStart_always(start_success) == TRUE

\* `if not start_success: return`
ProceedAfterStart(start_success) == start_success

\* receive_text() returns a tts_request: handle_tts_request up to its first await
TtsRequest(f, client_id, text) ==
    /\ ~LoopBlocked
    /\ fpc[f] = "recv"
    /\ sock[f] = "open"
    /\ nreq < MaxRequests
    /\ nreq' = nreq + 1
    /\ requested' = [f |-> f, client_id |-> client_id, text |-> text]
    /\ IF client_id = None \/ IsEmptyStr(Strip(text))
       THEN UNCHANGED <<fpc, req, pipe, sent>>
       ELSE /\ sent' = [sent EXCEPT ![f] = <<Call("start", 0, 0, client_id)>>]
            /\ pipe' = [pipe EXCEPT ![f] = NoPipe]
            /\ IF Registered(Registry, client_id)
               THEN /\ fpc' = [fpc EXCEPT ![f] = "req"]
                    /\ req' = [req EXCEPT ![f] =
                                 [client_id |-> client_id, pc |-> "start",
                                  chunk_count |-> 0,
                                  sock |-> client_connections[client_id],
                                  request_id |-> nreq + 1]]
               ELSE IF ProceedAfterStart(FALSE)
                    THEN /\ fpc' = [fpc EXCEPT ![f] = "req"]
                         /\ req' = [req EXCEPT ![f] =
                                      [client_id |-> client_id, pc |-> "waiting",
                                       chunk_count |-> 0, sock |-> None,
                                       request_id |-> nreq + 1]]
                    ELSE UNCHANGED <<fpc, req>>
    /\ UNCHANGED <<now, sock, registry_vars, fly_vars, chandler_vars, fsock, sweep,
                   last_activity, idle_at_start,
                   standalone_vars, fly_returned>>

\* (mutant) the result of send_audio_to_client is ignored
ContinueAfterAudio_always(ok) == TRUE

\* What the handler does when send_audio_to_client returned: on with the loop,
\* or `break`.
ContinueAfterAudio(ok) == ok

\* A socket send of the request ends: the send primitive returns True, or
\* unregisters the id and returns False; the handler runs on to its next wait.
ReqSendDone(f) ==
    /\ ~LoopBlocked
    /\ req[f].pc \in {"start", "audio", "complete", "error"}
    /\ LET q == req[f]
           ok == SendSucceeds(q.sock)
       IN /\ SetRegistry(AfterSend(Registry, q.client_id, ok))
          /\ last_activity' = Touch(q.sock, ok)
          /\ sent' = [sent EXCEPT ![f] = Settle(@, ok)]
          /\ CASE q.pc = "start" ->
                    IF ProceedAfterStart(ok)
                    THEN /\ req' = [req EXCEPT ![f].pc = "waiting", ![f].sock = None]
                         /\ pipe' = [pipe EXCEPT ![f] = StartedPipe]
                         /\ UNCHANGED fpc
                    ELSE Return(f) /\ UNCHANGED pipe
               [] q.pc = "audio" ->
                    IF ContinueAfterAudio(ok)
                    THEN /\ req' = [req EXCEPT ![f].pc = "waiting", ![f].sock = None]
                         /\ UNCHANGED <<fpc, pipe>>
                    ELSE LeaveGenerator(f, pipe[f], "abandoned", q.chunk_count)
                         /\ UNCHANGED fpc
               [] q.pc \in {"complete", "error"} ->
                    Return(f) /\ UNCHANGED pipe
    /\ UNCHANGED <<now, sock, fly_vars, chandler_vars, fsock, nreq, sweep,
                   idle_at_start,
                   standalone_vars, requested, fly_returned>>

\* sf.write on a segment: returns, or raises
EncodeOutcomes == BOOLEAN

\* (mutant) the handler does not count the chunk
CountChunk_not(chunk_count) == chunk_count

\* handle_tts_request: `chunk_count += 1`
CountChunk(chunk_count) == chunk_count + 1

\* (mutant) a zero-length segment is encoded and yielded like any other
IsMarker_never(seg) == FALSE

\* `if audio_chunk.shape[0] == 0: break`
IsMarker(seg) == seg = "z"

\* queue.get() returns: one turn of the generator's loop and, when it yields,
\* of the handler's loop up to send_audio_to_client's send.
Consume(f) ==
    /\ req[f].pc = "waiting"
    /\ pipe[f].queue # <<>>
    /\ LET got == Dequeue(pipe[f].queue)
           seg == got[1].seg
           p == [pipe[f] EXCEPT !.queue = got[2]]
           q == [p EXCEPT !.chunk_count = NextChunkCount(@)]
           cid == req[f].client_id
           hcount == req[f].chunk_count
       IN CASE seg = "stop" ->
                 LeaveGenerator(f, p, "exhausted", hcount) /\ UNCHANGED sent
            [] IsMarker(seg) ->
                 LeaveGenerator(f, p, "marker", hcount) /\ UNCHANGED sent
            [] OTHER ->
                 \E encoded \in EncodeOutcomes :
                    IF ~encoded
                    THEN LeaveGenerator(f, q, "encoding", hcount) /\ UNCHANGED sent
                    ELSE /\ sent' = [sent EXCEPT ![f] =
                                       Append(@, Call("frame", q.chunk_count, got[1].i, cid))]
                         /\ IF Registered(Registry, cid)
                            THEN /\ req' = [req EXCEPT ![f].pc = "audio",
                                               ![f].chunk_count = CountChunk(hcount),
                                               ![f].sock = client_connections[cid]]
                                 /\ pipe' = [pipe EXCEPT ![f] = q]
                            ELSE LeaveGenerator(f, q, "abandoned", CountChunk(hcount))
    /\ UNCHANGED <<now, sock, registry_vars, fly_vars, chandler_vars, fhandler_vars,
                   nreq, sweep, last_activity, idle_at_start,
                   standalone_vars, requested, fly_returned>>

\* thread.join() returns: the generator is finished and the handler sends the
\* terminal control message.
Join(f) ==
    /\ req[f].pc = "joining"
    /\ JoinReturns(pipe[f].thread)
    /\ LET kind == TerminalKind(pipe[f].exit)
           cid == req[f].client_id
           n == IF kind = "complete" THEN req[f].chunk_count ELSE 0
       IN /\ pipe' = [pipe EXCEPT ![f].gen = "finished", ![f].queue = <<>>]
          /\ sent' = [sent EXCEPT ![f] = Append(@, Call(kind, n, 0, cid))]
          /\ IF Registered(Registry, cid)
             THEN /\ req' = [req EXCEPT ![f].pc = kind,
                                ![f].sock = client_connections[cid]]
                  /\ UNCHANGED fpc
             ELSE Return(f)
    /\ UNCHANGED <<now, sock, registry_vars, fly_vars, chandler_vars, fsock, nreq,
                   sweep, last_activity, idle_at_start,
                   standalone_vars, requested, fly_returned>>

\* ------------------------------------------------------------ specification
Next ==
    \/ Tick
    \/ \E s \in ClientSockets \cup FlySockets : PeerDrop(s)
    \/ \E s \in ClientSockets : ClientConnect(s)
    \/ \E s \in ClientSockets : ClientSendDone(s)
    \/ \E s \in ClientSockets, m \in ClientMessages : ClientReceive(s, m)
    \/ \E s \in ClientSockets : ClientDisconnect(s)
    \/ SweepStart
    \/ SweepCloseDone
    \/ \E f \in FlySockets : FlyConnect(f)
    \/ \E f \in FlySockets, m \in FlyMessages : FlyReceive(f, m)
    \/ \E f \in FlySockets : FlyReplyDone(f)
    \/ \E f \in FlySockets : FlyDisconnect(f)
    \/ \E f \in FlySockets, c \in TtsClientIds, x \in TtsTexts : TtsRequest(f, c, x)
    \/ \E f \in FlySockets : ReqSendDone(f)
    \/ \E f \in FlySockets : Consume(f)
    \/ \E f \in FlySockets : Join(f)
    \/ \E f \in FlySockets, seg \in Segments : ProducerEmit(f, seg)
    \/ \E f \in FlySockets, seg \in Segments : ProducerEnd(f, seg)
    \/ \E f \in FlySockets : ProducerDie(f)

Spec == Init /\ [][Next]_vars


(***************************************************************************)
(* The whole service has more interleavings than can be enumerated.  The   *)
(* specifications below are the service with fewer connections: each keeps *)
(* the actions as they are and lets fewer sockets take part.               *)
(***************************************************************************)

\* Registry and idle sweep: three client connections (two of them under the
\* same id), the clock and the sweep; no upstream.
NextSweep ==
    \/ Tick
    \/ \E s \in ClientSockets : PeerDrop(s)
    \/ \E s \in ClientSockets : ClientConnect(s)
    \/ \E s \in ClientSockets : ClientSendDone(s)
    \/ \E s \in ClientSockets, m \in ClientMessages : ClientReceive(s, m)
    \/ \E s \in ClientSockets : ClientDisconnect(s)
    \/ SweepStart
    \/ SweepCloseDone

SpecSweep == Init /\ [][NextSweep]_vars

\* One client connection receiving relayed streams from one upstream, with
\* the clock and the sweep; every request has a text.
NextSweepStream ==
    \/ Tick
    \/ \E s \in {"s1", "f1"} : PeerDrop(s)
    \/ ClientConnect("s1")
    \/ ClientSendDone("s1")
    \/ \E m \in ClientMessages : ClientReceive("s1", m)
    \/ ClientDisconnect("s1")
    \/ SweepStart
    \/ SweepCloseDone
    \/ FlyConnect("f1")
    \/ \E m \in UnansweredFlyMessages : FlyReceive("f1", m)
    \/ FlyDisconnect("f1")
    \/ \E c \in TtsClientIds : TtsRequest("f1", c, <<"a">>)
    \/ ReqSendDone("f1")
    \/ Consume("f1")
    \/ Join("f1")
    \/ \E seg \in Segments : ProducerEmit("f1", seg)
    \/ \E seg \in Segments : ProducerEnd("f1", seg)
    \/ ProducerDie("f1")

SpecSweepStream == Init /\ [][NextSweepStream]_vars

\* The streaming pipeline: one upstream relaying requests to client id A,
\* which has two connections; no clock, no sweep; every request has a text.
StreamSockets == {"s1", "s3"}

NextStream ==
    \/ \E s \in StreamSockets \cup {"f1"} : PeerDrop(s)
    \/ \E s \in StreamSockets : ClientConnect(s)
    \/ \E s \in StreamSockets : ClientSendDone(s)
    \/ \E s \in StreamSockets : ClientDisconnect(s)
    \/ FlyConnect("f1")
    \/ \E m \in UnansweredFlyMessages : FlyReceive("f1", m)
    \/ FlyDisconnect("f1")
    \/ \E c \in TtsClientIds : TtsRequest("f1", c, <<"a">>)
    \/ ReqSendDone("f1")
    \/ Consume("f1")
    \/ Join("f1")
    \/ \E seg \in Segments : ProducerEmit("f1", seg)
    \/ \E seg \in Segments : ProducerEnd("f1", seg)
    \/ ProducerDie("f1")

SpecStream == Init /\ [][NextStream]_vars

\* Two upstream connections and one client connection; every generation
\* ends at once (one segment and the stop signal).
NextUpstream ==
    \/ \E s \in {"s1"} \cup FlySockets : PeerDrop(s)
    \/ ClientConnect("s1")
    \/ ClientSendDone("s1")
    \/ ClientDisconnect("s1")
    \/ \E f \in FlySockets : FlyConnect(f)
    \/ \E f \in FlySockets, m \in FlyMessages : FlyReceive(f, m)
    \/ \E f \in FlySockets : FlyReplyDone(f)
    \/ \E f \in FlySockets : FlyDisconnect(f)
    \/ \E f \in FlySockets, c \in TtsClientIds, x \in TtsTexts : TtsRequest(f, c, x)
    \/ \E f \in FlySockets : ReqSendDone(f)
    \/ \E f \in FlySockets : Consume(f)
    \/ \E f \in FlySockets : Join(f)
    \/ \E f \in FlySockets, seg \in Segments : ProducerEnd(f, seg)

SpecUpstream == Init /\ [][NextUpstream]_vars

\* The upstream link alone: two upstream connections and their messages
\* other than tts_request, with the clock.
NextLink ==
    \/ Tick
    \/ \E f \in FlySockets : PeerDrop(f)
    \/ \E f \in FlySockets : FlyConnect(f)
    \/ \E f \in FlySockets, m \in FlyMessages : FlyReceive(f, m)
    \/ \E f \in FlySockets : FlyReplyDone(f)
    \/ \E f \in FlySockets : FlyDisconnect(f)

SpecLink == Init /\ [][NextLink]_vars

\* Two upstream connections relaying to two clients, A and B, one connection
\* each: requests for different clients in progress at the same time; every
\* generation ends at once (one segment and the stop signal).
IsolationSockets == {"s1", "s2"}

NextIsolation ==
    \/ \E s \in IsolationSockets : PeerDrop(s)
    \/ \E s \in IsolationSockets : ClientConnect(s)
    \/ \E s \in IsolationSockets : ClientSendDone(s)
    \/ \E f \in FlySockets : FlyConnect(f)
    \/ \E f \in FlySockets, c \in Clients : TtsRequest(f, c, <<"a">>)
    \/ \E f \in FlySockets : ReqSendDone(f)
    \/ \E f \in FlySockets : Consume(f)
    \/ \E f \in FlySockets : Join(f)
    \/ \E f \in FlySockets, seg \in Segments : ProducerEnd(f, seg)

SpecIsolation == Init /\ [][NextIsolation]_vars

\* One upstream relaying streams while two clients, A and B, talk to the
\* service on one connection each.
NextConcurrent ==
    \/ \E s \in IsolationSockets : PeerDrop(s)
    \/ \E s \in IsolationSockets : ClientConnect(s)
    \/ \E s \in IsolationSockets : ClientSendDone(s)
    \/ \E s \in IsolationSockets, m \in {"ping", "status"} : ClientReceive(s, m)
    \/ \E s \in IsolationSockets : ClientDisconnect(s)
    \/ FlyConnect("f1")
    \/ \E c \in Clients : TtsRequest("f1", c, <<"a">>)
    \/ ReqSendDone("f1")
    \/ Consume("f1")
    \/ Join("f1")
    \/ \E seg \in Segments : ProducerEmit("f1", seg)
    \/ \E seg \in Segments : ProducerEnd("f1", seg)

SpecConcurrent == Init /\ [][NextConcurrent]_vars

\* Two upstream sockets stream to one client on the shared tts_service: the
\* event loop is released at every awaited send of handle_tts_request.
NextParallel ==
    \/ ClientConnect("s1")
    \/ ClientSendDone("s1")
    \/ \E f \in FlySockets : FlyConnect(f)
    \/ \E f \in FlySockets : TtsRequest(f, "A", <<"a">>)
    \/ \E f \in FlySockets : ReqSendDone(f)
    \/ \E f \in FlySockets : Consume(f)
    \/ \E f \in FlySockets : Join(f)
    \/ \E f \in FlySockets, seg \in Segments : ProducerEmit(f, seg)
    \/ \E f \in FlySockets, seg \in Segments : ProducerEnd(f, seg)

SpecParallel == Init /\ [][NextParallel]_vars

\* One upstream streaming to one client, with the scheduling the runtime
\* gives: a queue.get whose queue holds an item returns, a join on an ended
\* thread returns, an awaited send on a socket completes.
NextTermination ==
    \/ ClientConnect("s1")
    \/ ClientSendDone("s1")
    \/ FlyConnect("f1")
    \/ TtsRequest("f1", "A", <<"a">>)
    \/ ReqSendDone("f1")
    \/ Consume("f1")
    \/ Join("f1")
    \/ \E seg \in Segments : ProducerEmit("f1", seg)
    \/ \E seg \in Segments : ProducerEnd("f1", seg)
    \/ ProducerDie("f1")

SpecTermination ==
    /\ Init /\ [][NextTermination]_vars
    /\ WF_vars(ReqSendDone("f1"))
    /\ WF_vars(Consume("f1"))
    /\ WF_vars(Join("f1"))

(***************************************************************************)
(* modal websocket_endpoint: one direct connection.  The stream comes from *)
(* a remote generator iterated with `async for`, which suspends.           *)
(***************************************************************************)
DirectMessages == {"health_check", "stream_tts", "unknown", "malformed"}
DirectTexts == Strings({"a", " "}, MaxDirectTextLen)

\* A message handed to websocket.send_text / send_bytes, or yielded by a job.
Event(kind, n, res) == [kind |-> kind, n |-> n, res |-> res]
SettleLast(out, ok) == [out EXCEPT ![Len(out)].res = IF ok THEN "ok" ELSE "fail"]

DirectVars == <<now, sock, registry_vars, fly_vars, chandler_vars, fhandler_vars,
                request_vars, sweep, last_activity, idle_at_start, requested,
                fly_returned>>

\* accept() returns
DirectAccept ==
    /\ direct.pc = "new"
    /\ direct' = [direct EXCEPT !.pc = "recv"]
    /\ UNCHANGED <<DirectVars, job, chunker, synth, predictor>>

\* the peer goes away
DirectPeerDrop ==
    /\ direct.pc # "new"
    /\ direct.peer = "open"
    /\ direct' = [direct EXCEPT !.peer = "gone"]
    /\ UNCHANGED <<DirectVars, job, chunker, synth, predictor>>

\* receive_text() returns message m (text is its "text" field): the handler
\* runs to its next await.
DirectReceive(m, text) ==
    /\ direct.pc = "recv"
    /\ direct.peer = "open"
    /\ direct.nmsg < MaxDirectMessages
    /\ LET d == [direct EXCEPT !.msg = m, !.text = text, !.out = <<>>,
                               !.invoked = 0, !.chunk_count = 0, !.nmsg = @ + 1]
       IN CASE m = "health_check" ->
                 direct' = [d EXCEPT !.pc = "health",
                                     !.out = <<Event("health_response", 0, "inflight")>>]
            [] m = "stream_tts" ->
                 IF IsEmptyStr(Strip(text))
                 THEN direct' = [d EXCEPT !.pc = "invalid",
                                          !.out = <<Event("error", 0, "inflight")>>]
                 ELSE direct' = [d EXCEPT !.pc = "start",
                                          !.out = <<Event("stream_start", 0, "inflight")>>]
            [] m = "unknown" -> direct' = d
            [] m = "malformed" ->
                 \* json.loads raises: the outer except, the endpoint returns
                 direct' = [d EXCEPT !.pc = "done", !.peer = "gone"]
    /\ UNCHANGED <<DirectVars, job, chunker, synth, predictor>>

\* A send ends.  A failed send raises: from the inner try the handler goes to
\* send the error event (which fails too), from elsewhere the endpoint returns.
DirectSendDone ==
    /\ direct.pc \in {"health", "invalid", "start", "frame", "complete", "error"}
    /\ LET ok == direct.peer = "open"
           d == [direct EXCEPT !.out = SettleLast(@, ok)]
       IN CASE direct.pc \in {"health", "invalid", "error", "complete"} /\ ok ->
                 direct' = [d EXCEPT !.pc = "recv"]
            [] direct.pc = "start" /\ ok ->
                 \* get_tts_stream.remote_gen.aio(...) is called and awaited
                 direct' = [d EXCEPT !.pc = "waiting", !.invoked = @ + 1]
            [] direct.pc = "frame" /\ ok ->
                 direct' = [d EXCEPT !.pc = "waiting"]
            [] direct.pc \in {"frame", "complete"} /\ ~ok ->
                 direct' = [d EXCEPT !.pc = "error",
                                     !.out = Append(@, Event("error", 0, "inflight"))]
            [] direct.pc \in {"health", "invalid", "start", "error"} /\ ~ok ->
                 direct' = [d EXCEPT !.pc = "done"]
    /\ UNCHANGED <<DirectVars, job, chunker, synth, predictor>>

\* the remote stream yields a frame: chunk_count += 1, send_bytes
DirectChunk ==
    /\ direct.pc = "waiting"
    /\ direct.chunk_count < MaxSegments
    /\ direct' = [direct EXCEPT !.pc = "frame", !.chunk_count = @ + 1,
                    !.out = Append(@, Event("frame", direct.chunk_count + 1, "inflight"))]
    /\ UNCHANGED <<DirectVars, job, chunker, synth, predictor>>

\* the remote stream is exhausted: stream_complete
DirectStreamEnd ==
    /\ direct.pc = "waiting"
    /\ direct' = [direct EXCEPT !.pc = "complete",
                    !.out = Append(@, Event("stream_complete", direct.chunk_count, "inflight"))]
    /\ UNCHANGED <<DirectVars, job, chunker, synth, predictor>>

\* the remote stream raises: the inner except sends the error event
DirectStreamRaise ==
    /\ direct.pc = "waiting"
    /\ direct' = [direct EXCEPT !.pc = "error",
                    !.out = Append(@, Event("error", 0, "inflight"))]
    /\ UNCHANGED <<DirectVars, job, chunker, synth, predictor>>

\* receive_text() raises WebSocketDisconnect
DirectDisconnect ==
    /\ direct.pc = "recv"
    /\ direct.peer = "gone"
    /\ direct' = [direct EXCEPT !.pc = "done"]
    /\ UNCHANGED <<DirectVars, job, chunker, synth, predictor>>

(***************************************************************************)
(* runpod_handler.handler: one serverless job, a generator of events.      *)
(***************************************************************************)
\* handler(job) is called and runs to its first yield
JobRun(text) ==
    /\ job.pc = "idle"
    /\ IF IsEmptyStr(Strip(text))
       THEN job' = [job EXCEPT !.pc = "done", !.text = text,
                               !.out = <<Event("error", 0, "ok")>>]
       ELSE job' = [job EXCEPT !.pc = "started", !.text = text,
                               !.out = <<Event("stream_start", 0, "ok")>>]
    /\ UNCHANGED <<DirectVars, direct, chunker, synth, predictor>>

\* resumed after stream_start: the for loop calls stream_synthesis
JobSynthesize ==
    /\ job.pc = "started"
    /\ job' = [job EXCEPT !.pc = "streaming", !.invoked = @ + 1]
    /\ UNCHANGED <<DirectVars, direct, chunker, synth, predictor>>

\* stream_synthesis yields a frame: chunk_count += 1, yield audio_chunk
JobChunk ==
    /\ job.pc = "streaming"
    /\ job.chunk_count < MaxSegments
    /\ job' = [job EXCEPT !.chunk_count = @ + 1,
                 !.out = Append(@, Event("audio_chunk", job.chunk_count + 1, "ok"))]
    /\ UNCHANGED <<DirectVars, direct, chunker, synth, predictor>>

\* stream_synthesis is exhausted: yield stream_complete
JobEnd ==
    /\ job.pc = "streaming"
    /\ job' = [job EXCEPT !.pc = "done",
                 !.out = Append(@, Event("stream_complete", job.chunk_count, "ok"))]
    /\ UNCHANGED <<DirectVars, direct, chunker, synth, predictor>>

\* stream_synthesis raises: except Exception, yield {"error": ...}
JobRaise ==
    /\ job.pc = "streaming"
    /\ job' = [job EXCEPT !.pc = "done", !.out = Append(@, Event("error", 0, "ok"))]
    /\ UNCHANGED <<DirectVars, direct, chunker, synth, predictor>>

\* The direct entry points: one websocket connection and one serverless job.
NextDirect ==
    \/ DirectAccept
    \/ DirectPeerDrop
    \/ \E m \in DirectMessages, text \in DirectTexts : DirectReceive(m, text)
    \/ DirectSendDone
    \/ DirectChunk
    \/ DirectStreamEnd
    \/ DirectStreamRaise
    \/ DirectDisconnect
    \/ \E text \in DirectTexts : JobRun(text)
    \/ JobSynthesize
    \/ JobChunk
    \/ JobEnd
    \/ JobRaise

SpecDirect == Init /\ [][NextDirect]_vars

(***************************************************************************)
(* chunk_text (modal StreamingTTSService): a pure function of the text and *)
(* max_words, computed as the code computes it.                            *)
(***************************************************************************)
ChunkChars == {"a", "b", " ", "."}
ChunkTexts == Strings(ChunkChars, MaxTextLen)

\* re.split(r'[।|\.]+', text): the pieces between maximal runs of delimiters,
\* empty pieces at either end included
RECURSIVE ReSplitFrom(_, _, _, _)
ReSplitFrom(s, piece, pieces, in_run) ==
    IF s = <<>> THEN Append(pieces, piece)
    ELSE IF Head(s) \in Delimiters
         THEN IF in_run
              THEN ReSplitFrom(Tail(s), piece, pieces, TRUE)
              ELSE ReSplitFrom(Tail(s), <<>>, Append(pieces, piece), TRUE)
         ELSE ReSplitFrom(Tail(s), Append(piece, Head(s)), pieces, FALSE)

ReSplit(s) == ReSplitFrom(s, <<>>, <<>>, FALSE)

\* (mutant) the chunk is closed as soon as the bound is reached
Exceeds_or_reaches(current_word_count, sentence_words, max_words) ==
    current_word_count + sentence_words >= max_words

\* `current_word_count + sentence_words > max_words`
Exceeds(current_word_count, sentence_words, max_words) ==
    current_word_count + sentence_words > max_words

\* The for loop over the sentences and the final append.
RECURSIVE ChunkLoop(_, _, _, _, _)
ChunkLoop(sentences, max_words, chunks, current_chunk, current_word_count) ==
    IF sentences = <<>>
    THEN IF ~IsEmptyStr(Strip(current_chunk))
         THEN Append(chunks, Strip(current_chunk))
         ELSE chunks
    ELSE LET sentence == Strip(Head(sentences))
             sentence_words == Len(Split(sentence))
         IN IF IsEmptyStr(sentence)
            THEN ChunkLoop(Tail(sentences), max_words, chunks, current_chunk,
                           current_word_count)
            ELSE IF Exceeds(current_word_count, sentence_words, max_words)
                       /\ ~IsEmptyStr(current_chunk)
                 THEN ChunkLoop(Tail(sentences), max_words,
                                Append(chunks, Strip(current_chunk)),
                                sentence, sentence_words)
                 ELSE ChunkLoop(Tail(sentences), max_words, chunks,
                                IF ~IsEmptyStr(current_chunk)
                                THEN current_chunk \o <<" ">> \o sentence
                                ELSE sentence,
                                current_word_count + sentence_words)

\* (mutant) the text is cut into sentences whatever its length
chunk_text_always_cut(text, max_words) ==
    ChunkLoop(ReSplit(text), max_words, <<>>, <<>>, 0)

chunk_text(text, max_words) ==
    IF Len(Split(text)) <= max_words
    THEN <<text>>
    ELSE ChunkLoop(ReSplit(text), max_words, <<>>, <<>>, 0)

\* chunk_text is called with a text and a bound ...
InitChunker ==
    /\ ServiceInit
    /\ direct = NoDirect
    /\ job = NoJob
    /\ chunker \in [pc : {"called"}, text : ChunkTexts, max_words : 0..MaxWords,
                    chunks : {<<>>}]
    /\ synth = NoSynth
    /\ predictor = NoPredictor

\* ... and returns its chunks.
ChunkReturn ==
    /\ chunker.pc = "called"
    /\ chunker' = [chunker EXCEPT !.pc = "returned",
                                  !.chunks = chunk_text(chunker.text, chunker.max_words)]
    /\ UNCHANGED <<DirectVars, direct, job, synth, predictor>>

NextChunker == ChunkReturn

SpecChunker == InitChunker /\ [][NextChunker]_vars

(***************************************************************************)
(* The synthesis methods of the service: batch_synthesis and the start of  *)
(* stream_synthesis (voice lookup, engine input).                          *)
(***************************************************************************)

\* VOICE_CONFIGS, each descriptor by its opening words.
VOICE_CONFIGS ==
    [k \in {"aryan_default", "aryan_scholarly", "aryan_meditative", "priya_default"} |->
        CASE k = "aryan_default" -> "Aryan speaks in a warm, respectful tone"
          [] k = "aryan_scholarly" -> "Aryan recites Sanskrit with scholarly precision"
          [] k = "aryan_meditative" -> "Aryan speaks in a serene, meditative tone"
          [] k = "priya_default" -> "Priya speaks in a warm, respectful tone"]

\* The values a caller may pass as voice: a known key, another string, None
\* (JSON null), or a value that cannot be hashed (a JSON array or object).
Unhashable == "[]"
VoiceValues == {"aryan_default", "priya_default", "unknown", None, Unhashable}
Hashable(k) == k # Unhashable

\* dict.get(k, default), for a key that can be hashed
DictGet(d, k, default) == IF k \in DOMAIN d THEN d[k] ELSE default

\* VOICE_CONFIGS.get(voice_key, VOICE_CONFIGS["aryan_default"])
VoiceDescription(voice_key) ==
    DictGet(VOICE_CONFIGS, voice_key, VOICE_CONFIGS["aryan_default"])

\* Texts of up to MaxSentences sentences of "a" words, parted by ". ", of
\* MaxTextWords words in all at most.
SentenceWords == {0, 1, 10, 20, 21}

RECURSIVE SumSeq(_)
SumSeq(lens) == IF lens = <<>> THEN 0 ELSE Head(lens) + SumSeq(Tail(lens))

RECURSIVE WordsText(_)
WordsText(n) ==
    IF n = 0 THEN <<>>
    ELSE IF n = 1 THEN <<"a">>
    ELSE <<"a", " ">> \o WordsText(n - 1)

RECURSIVE TextOf(_)
TextOf(lens) ==
    IF lens = <<>> THEN <<>>
    ELSE IF Len(lens) = 1 THEN WordsText(lens[1])
    ELSE WordsText(lens[1]) \o <<".", " ">> \o TextOf(Tail(lens))

\* n words that are sentence markers and nothing else
RECURSIVE MarkersText(_)
MarkersText(n) ==
    IF n = 0 THEN <<>>
    ELSE IF n = 1 THEN <<".">>
    ELSE <<".", " ">> \o MarkersText(n - 1)

SynthTexts ==
    {TextOf(lens) :
        lens \in {l \in UNION {[1..k -> SentenceWords] : k \in 0..MaxSentences} :
                    SumSeq(l) <= MaxTextWords}}
       \cup {MarkersText(batch_max_words + 1)}

SynthMethods == {"batch_synthesis", "stream_synthesis"}

\* np.zeros(silence_samples): the 0.1 s of silence
silence == "silence"

\* the audio the engine generated for the i-th text chunk
Audio(i) == <<"audio", i>>

\* (mutant) the chunks are concatenated with nothing between them
Padded_without_silence(final_audio, chunk) == final_audio \o <<chunk>>

\* np.concatenate([final_audio, silence, chunk])
Padded(final_audio, chunk) == final_audio \o <<silence, chunk>>

\* final_audio = all_audio_chunks[0]; for chunk in all_audio_chunks[1:]: ...
RECURSIVE ConcatenateFrom(_, _)
ConcatenateFrom(final_audio, rest) ==
    IF rest = <<>> THEN final_audio
    ELSE ConcatenateFrom(Padded(final_audio, Head(rest)), Tail(rest))

Concatenate(all_audio_chunks) ==
    ConcatenateFrom(<<Head(all_audio_chunks)>>, Tail(all_audio_chunks))

\* What a call of the engine may come to: audio, a generation without
\* sequences/audios_length, or an exception.
GenerateOutcomes == {"audio", "missing", "raise"}

\* A method of the service is called with a text and a voice.
InitSynth ==
    /\ ServiceInit
    /\ direct = NoDirect
    /\ job = NoJob
    /\ chunker = NoChunker
    /\ predictor = NoPredictor
    /\ \E m \in SynthMethods, text \in SynthTexts, v \in VoiceValues :
          synth = [NoSynth EXCEPT !.pc = "called", !.method = m, !.text = text,
                                  !.voice_key = v]

\* batch_synthesis: the text is chunked and the voice looked up.
BatchStart ==
    /\ synth.pc = "called"
    /\ synth.method = "batch_synthesis"
    /\ LET text_chunks == chunk_text(synth.text, batch_max_words) IN
       IF Hashable(synth.voice_key)
       THEN synth' = [synth EXCEPT
                        !.pc = "loop",
                        !.text_chunks = text_chunks,
                        !.voice_description = VoiceDescription(synth.voice_key)]
       ELSE synth' = [synth EXCEPT !.pc = "raised", !.text_chunks = text_chunks]
    /\ UNCHANGED <<DirectVars, direct, job, chunker, predictor>>

\* batch_synthesis: the engine is called with the next chunk.
BatchGenerate(outcome) ==
    /\ synth.pc = "loop"
    /\ Len(synth.engine_inputs) < Len(synth.text_chunks)
    /\ LET i == Len(synth.engine_inputs) + 1
           chunk == synth.text_chunks[i]
       IN synth' = [synth EXCEPT
                      !.engine_inputs = Append(@, chunk),
                      !.generated = Append(@, outcome),
                      !.all_audio_chunks =
                          IF outcome = "audio" THEN Append(@, Audio(i)) ELSE @,
                      !.pc = IF outcome = "raise" THEN "raised" ELSE @]
    /\ UNCHANGED <<DirectVars, direct, job, chunker, predictor>>

\* batch_synthesis: after the last chunk the audio is put together.
BatchReturn ==
    /\ synth.pc = "loop"
    /\ Len(synth.engine_inputs) = Len(synth.text_chunks)
    /\ IF synth.all_audio_chunks = <<>>
       THEN synth' = [synth EXCEPT !.pc = "returned", !.result = None]
       ELSE synth' = [synth EXCEPT
                        !.pc = "returned",
                        !.final_audio = Concatenate(synth.all_audio_chunks),
                        !.result = "WAV"]
    /\ UNCHANGED <<DirectVars, direct, job, chunker, predictor>>

\* stream_synthesis, up to the start of the generation thread: the voice is
\* looked up and the engine is given the text.
StreamStart ==
    /\ synth.pc = "called"
    /\ synth.method = "stream_synthesis"
    /\ IF Hashable(synth.voice_key)
       THEN synth' = [synth EXCEPT
                        !.pc = "streaming",
                        !.voice_description = VoiceDescription(synth.voice_key),
                        !.engine_inputs = <<synth.text>>]
       ELSE synth' = [synth EXCEPT !.pc = "raised"]
    /\ UNCHANGED <<DirectVars, direct, job, chunker, predictor>>

NextSynth ==
    \/ BatchStart
    \/ \E outcome \in GenerateOutcomes : BatchGenerate(outcome)
    \/ BatchReturn
    \/ StreamStart

SpecSynth == InitSynth /\ [][NextSynth]_vars

(***************************************************************************)
(* Predictor.predict: a generator of hex strings, its producer thread      *)
(* started in the body and joined after the loop.                          *)
(***************************************************************************)

\* predict(...) is called and iterated: the body runs to thread.start().  The
\* file imports no Thread: where the name is not bound, the call raises
\* NameError and no thread is made.
PredictStart(thread_bound) ==
    /\ predictor.pc = "idle"
    /\ IF thread_bound
       THEN predictor' = [predictor EXCEPT !.pc = "waiting", !.thread = "running"]
       ELSE predictor' = [predictor EXCEPT !.pc = "raised"]
    /\ UNCHANGED <<DirectVars, direct, job, chunker, synth>>

\* model.generate puts a segment on the streamer's queue
PredictEmit(seg) ==
    /\ predictor.thread = "running"
    /\ predictor.emitted + 1 < MaxSegments
    /\ predictor' = [predictor EXCEPT
                        !.queue = Append(@, Segment(seg, predictor.emitted + 1)),
                        !.emitted = @ + 1]
    /\ UNCHANGED <<DirectVars, direct, job, chunker, synth>>

\* model.generate returns: the last segment and the stop signal are put
PredictEnd(seg) ==
    /\ predictor.thread = "running"
    /\ predictor' = [predictor EXCEPT
                        !.queue = @ \o <<Segment(seg, predictor.emitted + 1), StopSignal>>,
                        !.emitted = @ + 1,
                        !.thread = "finished"]
    /\ UNCHANGED <<DirectVars, direct, job, chunker, synth>>

\* An exception or GeneratorExit leaves the body: nothing else of it runs.
AfterUnwind(p, thread) == p

\* queue.get() returns: one turn of the for loop, up to its yield
PredictConsume ==
    /\ predictor.pc = "waiting"
    /\ predictor.queue # <<>>
    /\ LET got == Dequeue(predictor.queue)
           p == [predictor EXCEPT !.queue = got[2]]
       IN CASE got[1].seg = "stop" -> predictor' = [p EXCEPT !.pc = "joining"]
            [] IsMarker(got[1].seg) -> predictor' = [p EXCEPT !.pc = "joining"]
            [] OTHER ->
                 \E encoded \in EncodeOutcomes :
                    IF encoded
                    THEN predictor' = [p EXCEPT !.pc = "yielded", !.yielded = @ + 1]
                    ELSE predictor' =
                            AfterUnwind([p EXCEPT !.pc = "raised"], p.thread)
    /\ UNCHANGED <<DirectVars, direct, job, chunker, synth>>

\* the consumer asks for the next item
PredictNext ==
    /\ predictor.pc = "yielded"
    /\ predictor' = [predictor EXCEPT !.pc = "waiting"]
    /\ UNCHANGED <<DirectVars, direct, job, chunker, synth>>

\* the consumer stops iterating: close() raises GeneratorExit at the yield
PredictClose ==
    /\ predictor.pc = "yielded"
    /\ predictor' = AfterUnwind([predictor EXCEPT !.pc = "closed"], predictor.thread)
    /\ UNCHANGED <<DirectVars, direct, job, chunker, synth>>

\* thread.join() after the loop returns
PredictJoin ==
    /\ predictor.pc = "joining"
    /\ JoinReturns(predictor.thread)
    /\ predictor' = [predictor EXCEPT !.pc = "finished", !.joined = TRUE]
    /\ UNCHANGED <<DirectVars, direct, job, chunker, synth>>

NextPredict ==
    \/ \E thread_bound \in BOOLEAN : PredictStart(thread_bound)
    \/ \E seg \in Segments : PredictEmit(seg)
    \/ \E seg \in Segments : PredictEnd(seg)
    \/ PredictConsume
    \/ PredictNext
    \/ PredictClose
    \/ PredictJoin

SpecPredict == Init /\ [][NextPredict]_vars

(***************************************************************************)
(* Claims                                                                  *)
(***************************************************************************)

\* The sweep sends its close message on socket s in this step.
SweepCloses(s) == sock[s] # "closed" /\ sock'[s] = "closed"

\* The sweep resumes from close() in this step and unregisters the id.
SweepUnregisters == sweep.pc = "closing" /\ sweep' # sweep

ActiveWithin(s, threshold) == now - last_activity[s] <= threshold

\* C1: a connection with activity (a received message, a successful send)
\* within the last timeout_seconds is never closed or unregistered by the
\* sweep, a connection in the middle of receiving a stream included.
C1_NoFalseEviction ==
    [][/\ \A s \in ClientSockets :
             SweepCloses(s) => ~ActiveWithin(s, timeout_seconds)
       /\ SweepUnregisters /\ Registered(Registry, Head(sweep.ids)) =>
             ~ActiveWithin(client_connections[Head(sweep.ids)], timeout_seconds)
      ]_vars

\* The registration of socket s under id c is still there.
StillRegistered(c, s) ==
    \/ c \in DOMAIN client_connections /\ client_connections[c] = s
    \/ c \in DOMAIN connection_times /\ c \notin DOMAIN client_connections

\* C2 as stated: when a sweep completes, the id of every client that was
\* registered without recent activity when it began is absent from
\* client_connections and connection_times, and the sweep removed its entry
\* only after that client's socket had been closed.
C2_IdleIdAbsentAfterSweep ==
    [][/\ sweep.pc = "closing" /\ sweep'.pc = "sleep" =>
             \A p \in idle_at_start :
                /\ p[1] \notin DOMAIN client_connections'
                /\ p[1] \notin DOMAIN connection_times'
       /\ SweepUnregisters =>
             \A p \in idle_at_start :
                p[1] = Head(sweep.ids) => sock[p[2]] = "closed"
      ]_vars

\* C2, amended: once the sweep that found them is over, the connections that
\* had no activity within timeout_seconds when it began are no longer
\* registered (their ids may be, by connections accepted meanwhile); and the
\* sweep unregisters an id only after it sent close() on the socket that was
\* registered under the id when it reached it.
C2_IdleConnectionEvicted ==
    [][/\ sweep'.pc = "sleep" =>
             \A p \in idle_at_start' : ~StillRegistered(p[1], p[2])'
       /\ SweepUnregisters =>
             /\ sock[sweep.closing] = "closed"
             /\ Head(sweep.ids) \notin DOMAIN client_connections'
             /\ Head(sweep.ids) \notin DOMAIN connection_times'
      ]_vars

\* a sweep is over that evicted a connection without recent activity
C2_Witness ==
    /\ sweep.pc = "sleep"
    /\ \E p \in idle_at_start :
          /\ sock[p[2]] = "closed"
          /\ p[1] \notin DOMAIN client_connections
          /\ now - last_activity[p[2]] > timeout_seconds

\* A send primitive called for id c is suspended in its socket send.
SendInFlight(c) ==
    \/ \E s \in ClientSockets : cpc[s] \in {"hello", "reply"} /\ PathClientId(s) = c
    \/ \E f \in FlySockets :
          req[f].pc \in {"start", "audio", "complete", "error"} /\ req[f].client_id = c

\* C3: the sweep is never closing or unregistering the socket of an id while
\* a send_to_client or send_audio_to_client for that id is in flight.
C3_SweepSendExclusion ==
    sweep.pc = "closing" => ~SendInFlight(Head(sweep.ids))

\* The receive loop of client connection s is being served on an open socket.
Served(s) == sock[s] = "open" /\ cpc[s] \in {"hello", "reply", "recv"}

\* C4: at most one open, served connection per client id.
C4_OneLiveConnectionPerId ==
    \A s, t \in ClientSockets :
       Served(s) /\ Served(t) /\ PathClientId(s) = PathClientId(t) => s = t

\* The receive loop of upstream connection f is being served.
FlyServed(f) == fpc[f] \in {"recv", "reply", "req"}

\* Upstream handler f starts to process a message it has just received.
FlyProcesses(f) ==
    /\ fpc[f] = "recv"
    /\ \/ fpc'[f] \in {"reply", "req"}
       \/ nreq' # nreq /\ fpc'[f] = "recv" /\ fpc' = fpc /\ sent'[f] # sent[f]

\* C5: once a second upstream has connected, nothing that arrives on the
\* first one is processed, and one upstream socket at most is served.
C5_SingleUpstream ==
    [][/\ \A f \in FlySockets :
             fly_connection \notin {f, None} => ~FlyProcesses(f)
       /\ \A f, g \in FlySockets : FlyServed(f)' /\ FlyServed(g)' => f = g
      ]_vars

\* ------------------------------------------------------ pipeline claims
Ended(thread) == thread \in {"finished", "died"}

\* The generation or the encoding of this request has failed.
EngineFailed(f) == pipe[f].thread = "died" \/ pipe[f].exit = "encoding"

\* The request will take no further step: the handler has returned, or it
\* waits for a segment that no running producer will put.
RequestOver(f) ==
    \/ req[f].pc = "none"
    \/ req[f].pc = "waiting" /\ pipe[f].queue = <<>> /\ Ended(pipe[f].thread)

ErrorCalled(f) == \E i \in DOMAIN sent[f] : sent[f][i].kind = "error"

\* C6: a started stream whose engine or encoding failed ends with an error
\* event for the request handed to send_to_client.
C6_EngineFailureYieldsError ==
    \A f \in FlySockets :
       pipe[f].gen # "none" /\ EngineFailed(f) /\ RequestOver(f) => ErrorCalled(f)

\* C7: once the generator is finished, and whenever the handler is past its
\* for loop, the producer thread that was started has ended and been joined.
C7_ProducerJoined ==
    \A f \in FlySockets :
       pipe[f].thread # "none"
         /\ (pipe[f].gen = "finished" \/ req[f].pc \in {"complete", "error", "none"})
       => pipe[f].gen = "finished" /\ Ended(pipe[f].thread)

\* the consumer abandoned a stream after a failed socket send while segments
\* were still to come, and the generator is finished
C7_Witness ==
    /\ pipe["f1"].gen = "finished"
    /\ pipe["f1"].exit = "abandoned"
    /\ pipe["f1"].chunk_count < pipe["f1"].nonempty
    /\ \E i \in DOMAIN sent["f1"] :
          sent["f1"][i].kind = "frame" /\ sent["f1"][i].sock # None
             /\ sent["f1"][i].res = "fail"

FrameFailedAt(f, i) ==
    i \in DOMAIN sent[f] /\ sent[f][i].kind = "frame" /\ sent[f][i].res = "fail"

\* C8: once send_audio_to_client has returned failure for a frame, no later
\* frame of the request is handed to any socket, the handler has taken the
\* `break` (no exception, no tts_error), the destination id is unregistered
\* when the call returns, and the generator is closed, finished only with its
\* producer joined.
C8_DisconnectDuringStream ==
    \A f \in FlySockets : \A i \in DOMAIN sent[f] :
       FrameFailedAt(f, i) =>
          /\ \A j \in DOMAIN sent[f] : j > i => sent[f][j].kind = "complete"
          /\ pipe[f].exit = "abandoned"
          /\ pipe[f].gen \in {"closing", "finished"}
          /\ pipe[f].gen = "finished" => Ended(pipe[f].thread)
          /\ req[f].pc \in {"joining", "none"}
          /\ req[f].pc = "joining" => ~Registered(Registry, req[f].client_id)

\* a socket send of frame 1 failed while the engine went on to emit more
C8_Witness ==
    /\ FrameFailedAt("f1", 2)
    /\ sent["f1"][2].sock # None
    /\ pipe["f1"].nonempty > sent["f1"][2].n
    /\ pipe["f1"].gen = "finished"

\* The sequence numbers of the frames the generator produced, in order.
FrameEntries(f) == SelectSeq(sent[f], LAMBDA e : e.kind = "frame")
FrameNumbers(f) == [i \in DOMAIN FrameEntries(f) |-> FrameEntries(f)[i].n]
UpTo(n) == [i \in 1..n |-> i]

\* C9 as stated: the frames of a request are numbered exactly 1..N, N the
\* number of non-empty segments its engine emitted.
C9_FramesNumberedOneToN ==
    \A f \in FlySockets :
       pipe[f].gen = "finished" => FrameNumbers(f) = UpTo(pipe[f].nonempty)

\* C9, amended: the frames produced are numbered 1..k with no gap and no
\* repeat, the handler's count follows, k is at most the number N of non-empty
\* segments emitted, and k = N when the stream was read to its stop signal.
C9_FramesNumberedOneToK ==
    \A f \in FlySockets :
       LET k == Len(FrameEntries(f)) IN
       /\ FrameNumbers(f) = UpTo(k)
       /\ k <= pipe[f].nonempty
       /\ req[f].pc \in {"audio", "joining", "complete"} => req[f].chunk_count = k
       /\ pipe[f].exit = "exhausted" => k = pipe[f].nonempty

\* a stream read to its end with several frames
C9_Witness ==
    /\ pipe["f1"].gen = "finished"
    /\ pipe["f1"].exit = "exhausted"
    /\ Len(FrameEntries("f1")) >= 2
    /\ pipe["f1"].nonempty = Len(FrameEntries("f1"))

\* C10: the frames of a request are handed over in generation order, each
\* once, the next only when the send before it has ended, and nothing of the
\* request follows its terminal event.
C10_InOrderDelivery ==
    \A f \in FlySockets :
       LET log == sent[f] IN
       /\ \A i \in DOMAIN log : i < Len(log) => log[i].res # "inflight"
       /\ \A i, j \in DOMAIN log :
             i < j /\ log[i].kind = "frame" /\ log[j].kind = "frame" =>
                /\ log[i].seg < log[j].seg
                /\ log[i].n < log[j].n
                /\ log[i].res = "ok"
       /\ \A i \in DOMAIN log :
             log[i].kind \in {"complete", "error"} => i = Len(log)
       /\ \A i \in DOMAIN log : log[i].kind = "start" <=> i = 1

\* two frames delivered and the stream complete
C10_Witness ==
    /\ Len(sent["f1"]) = 4
    /\ sent["f1"][2].kind = "frame" /\ sent["f1"][2].res = "ok"
    /\ sent["f1"][3].kind = "frame" /\ sent["f1"][3].res = "ok"
    /\ sent["f1"][4].kind = "complete" /\ sent["f1"][4].res = "ok"

\* ----------------------------------------------------- isolation claims
\* The entry that upstream handler f logs in this step, for a send on a socket.
CallsSocket(f) ==
    /\ sent'[f] # sent[f]
    /\ sent'[f] # <<>>
    /\ sent'[f][Len(sent'[f])].res = "inflight"

\* C11: every frame and control event of a request whose destination is
\* client id c is sent on the socket registered under c when the send is
\* called, which is a connection of c: never on a connection of another
\* client, other requests in progress or not.
C11_ClientIsolation ==
    [][\A f \in FlySockets :
          /\ CallsSocket(f) =>
                LET e == sent'[f][Len(sent'[f])]
                    c == req'[f].client_id
                IN /\ c \in DOMAIN client_connections
                   /\ e.sock = client_connections[c]
                   /\ PathClientId(e.sock) = c
          /\ req'[f].pc # "none" =>
                \A i \in DOMAIN sent'[f] :
                   sent'[f][i].sock # None =>
                      PathClientId(sent'[f][i].sock) = req'[f].client_id
      ]_vars

\* requests for A and for B in progress at once, a frame of each sent
C11_Witness ==
    /\ req["f1"].pc # "none" /\ req["f2"].pc # "none"
    /\ req["f1"].client_id # req["f2"].client_id
    /\ \A f \in FlySockets :
          \E i \in DOMAIN sent[f] : sent[f][i].kind = "frame" /\ sent[f][i].sock # None

\* The consumer of request f waits for the next segment of a running generation.
Generating(f) ==
    req[f].pc = "waiting" /\ pipe[f].queue = <<>> /\ pipe[f].thread = "running"

\* Connection s is registered, open, and its handler is in receive_text().
Receiving(s) ==
    /\ Registered(Registry, PathClientId(s))
    /\ client_connections[PathClientId(s)] = s
    /\ cpc[s] = "recv"
    /\ sock[s] = "open"

\* C12: while a request's consumer waits for the next segment, the receive
\* loop of another registered client can still take a ping.
C12_GenerationDoesNotBlock ==
    \A f \in FlySockets, s \in ClientSockets :
       Generating(f) /\ Receiving(s) /\ PathClientId(s) # req[f].client_id
          => ENABLED ClientReceive(s, "ping")

\* ------------------------------------------------------ validation claims
\* The text is empty or holds whitespace only.
Blank(text) == \A i \in DOMAIN text : text[i] \in Whitespace

\* C13: a stream_tts message, or a serverless job, whose text is empty or
\* whitespace-only gets one error message and nothing else: no stream_start,
\* no frame, no engine invocation; and when the error has been sent the
\* connection is back in its receive loop.
C13_EmptyTextRejected ==
    [][/\ direct'.msg = "stream_tts" /\ Blank(direct'.text) =>
             /\ Len(direct'.out) = 1
             /\ direct'.out[1].kind = "error"
             /\ direct'.invoked = 0
             /\ direct'.chunk_count = 0
             /\ direct'.pc \in {"invalid", "recv", "done"}
       /\ direct.pc = "invalid" /\ direct'.pc # "invalid" /\ direct.peer = "open" =>
             direct'.pc = "recv" /\ direct'.out[1].res = "ok"
       /\ job'.pc # "idle" /\ Blank(job'.text) =>
             /\ job'.pc = "done"
             /\ Len(job'.out) = 1
             /\ job'.out[1].kind = "error"
             /\ job'.invoked = 0
             /\ job'.chunk_count = 0
      ]_vars

\* a whitespace-only text was refused on the connection, which receives
\* again, and by a job
C13_Witness ==
    /\ direct.msg = "stream_tts" /\ direct.text = <<" ">>
    /\ direct.pc = "recv" /\ direct.out[1].res = "ok"
    /\ job.pc = "done" /\ job.text = <<" ", " ">>

\* This step is handle_tts_request taking a new tts_request.
TakesRequest == nreq' # nreq

\* C14: a tts_request that names a registered client and has an empty or
\* whitespace-only text is answered with an error control message sent on
\* that client's connection, with no pipeline started and no frame sent.
C14_EmptyRelayTextReported ==
    [][TakesRequest /\ Registered(Registry, requested'.client_id)
          /\ Blank(requested'.text) =>
             LET log == sent'[requested'.f] IN
             /\ log # <<>>
             /\ log[Len(log)].kind = "error"
             /\ log[Len(log)].sock = client_connections[requested'.client_id]
             /\ \A i \in DOMAIN log : log[i].kind # "frame"
             /\ pipe'[requested'.f] = pipe[requested'.f]
      ]_vars

\* ------------------------------------------------- send primitive claims
\* The socket send that a primitive called by request f is suspended in ends
\* in this step, and the primitive returns.
SendReturns(f) ==
    /\ sent[f] # <<>>
    /\ sent[f][Len(sent[f])].res = "inflight"
    /\ Len(sent'[f]) >= Len(sent[f])
    /\ sent'[f][Len(sent[f])].res # "inflight"

\* A primitive called by request f returns at once in this step, no socket used.
ReturnsAtOnce(f) ==
    /\ sent'[f] # sent[f]
    /\ sent'[f] # <<>>
    /\ sent'[f][Len(sent'[f])].sock = None

\* The client id the primitive is called for in this step.
CalledFor(f) == IF TakesRequest THEN requested'.client_id ELSE req[f].client_id

OthersKept(d, after, k) ==
    /\ DOMAIN after = DOMAIN d \ {k}
    /\ \A x \in DOMAIN after : after[x] = d[x]

\* C16: on every registry the service reaches, disconnect_client(c) removes c
\* from client_connections and connection_times and leaves every other id's
\* entries as they were; a second call, or a call for an id that is not
\* registered, changes nothing.
C16_UnregisterIdempotent ==
    \A c \in TtsClientIds :
       LET once == disconnect_client(Registry, c)
           twice == disconnect_client(once, c)
       IN /\ c \notin DOMAIN once.cc
          /\ c \notin DOMAIN once.ct
          /\ OthersKept(client_connections, once.cc, c)
          /\ OthersKept(connection_times, once.ct, c)
          /\ twice = once
          /\ (c \notin DOMAIN client_connections /\ c \notin DOMAIN connection_times)
                => once = Registry

\* the sweep has unregistered A and the receive loop of A's closed connection
\* has called disconnect_client for A once more, B staying registered
C16_Witness ==
    /\ sweep.pc = "sleep"
    /\ sock["s1"] = "closed"
    /\ cpc["s1"] = "done"
    /\ "A" \notin DOMAIN client_connections
    /\ "B" \in DOMAIN client_connections /\ "B" \in DOMAIN connection_times

\* ------------------------------------------------------- protocol claims
\* Nothing of the service but the record of activity changes.
ServiceUnchanged ==
    UNCHANGED <<now, sock, registry_vars, fly_vars, chandler_vars, fhandler_vars,
                request_vars, sweep, idle_at_start, requested, fly_returned,
                standalone_vars>>

\* The handler of client connection s is resumed with a message.
ClientTakes(s) == cpc[s] = "recv" /\ sock[s] = "open" /\ ~LoopBlocked

\* The handler of upstream connection f is resumed with a message.
FlyTakes(f) == fpc[f] = "recv" /\ sock[f] = "open" /\ ~LoopBlocked

\* C17: a message of unrecognized type, taken by a client handler or by an
\* upstream handler, gets no response and changes nothing: the handler is in
\* its receive loop as before, registrations and the link are what they were.
C17_UnknownTypeTolerated ==
    /\ \A s \in ClientSockets :
          ClientTakes(s) => ENABLED (ClientReceive(s, "unknown") /\ ServiceUnchanged)
    /\ \A f \in FlySockets :
          FlyTakes(f) => ENABLED (FlyReceive(f, "unknown") /\ UNCHANGED vars)

\* a registered client and the linked upstream both wait for a message
C17_Witness ==
    /\ ClientTakes("s1") /\ client_connections = [x \in {"A"} |-> "s1"]
    /\ FlyTakes("f1") /\ fly_connection = "f1"

\* ------------------------------------------------ failure isolation claims
\* The socket send of request f that ends in this step has failed.
SendFails(f) == SendReturns(f) /\ sent'[f][Len(sent[f])].res = "fail"

\* C18: when a socket send of a relayed request for client c fails, only c is
\* unregistered: every other client keeps its registration, the upstream link
\* is neither cleared nor closed, no socket is closed, the upstream handlers
\* stay in their loops (the one of the request in the request or back in
\* receive_text), and the sweep is where it was.
C18_TransportFailureIsolated ==
    [][\A f \in FlySockets :
          SendFails(f) =>
             /\ \A x \in DOMAIN client_connections \ {req[f].client_id} :
                   /\ x \in DOMAIN client_connections'
                   /\ client_connections'[x] = client_connections[x]
                   /\ x \in DOMAIN connection_times'
                   /\ connection_times'[x] = connection_times[x]
             /\ UNCHANGED <<fly_vars, sock, sweep>>
             /\ fpc'[f] \in {"req", "recv"}
             /\ \A g \in FlySockets \ {f} : fpc'[g] = fpc[g]
             /\ \A s \in ClientSockets : cpc'[s] = cpc[s]
      ]_vars

\* a send to A has failed in a request that is over; B is registered, the
\* link is set and the handler of the request receives again
C18_Witness ==
    \E f \in FlySockets :
       /\ \E i \in DOMAIN sent[f] :
             /\ sent[f][i].res = "fail"
             /\ sent[f][i].sock = "s1"
       /\ req[f].pc = "none"
       /\ fpc[f] = "recv"
       /\ fly_connection # None
       /\ "A" \notin DOMAIN client_connections
       /\ "B" \in DOMAIN client_connections

\* -------------------------------------------------------- chunker claims
\* The words of the chunks, in chunk order.
RECURSIVE WordsOf(_)
WordsOf(chunks) ==
    IF chunks = <<>> THEN <<>> ELSE Split(Head(chunks)) \o WordsOf(Tail(chunks))

\* C19: the words of the chunks returned by chunk_text(T, W), in chunk order,
\* are exactly the words of T.
C19_ChunksCoverText ==
    chunker.pc = "returned" => WordsOf(chunker.chunks) = Split(chunker.text)

\* C20: every chunk returned by chunk_text(T, W) holds at least one word.
C20_ChunksNonEmpty ==
    chunker.pc = "returned" =>
       \A i \in DOMAIN chunker.chunks : Split(chunker.chunks[i]) # <<>>

\* C21: when T has at most W whitespace-separated words, chunk_text(T, W)
\* returns one chunk, which is T unchanged.
C21_ShortInputOneChunk ==
    chunker.pc = "returned" /\ Len(Split(chunker.text)) <= chunker.max_words =>
       chunker.chunks = <<chunker.text>>

\* a short text with leading whitespace and a sentence marker came back as it was
C21_Witness ==
    /\ chunker.pc = "returned"
    /\ chunker.text = <<" ", "a", ".", " ", "b">>
    /\ chunker.max_words = 2
    /\ chunker.chunks = <<chunker.text>>

\* The sentences of a text: the pieces between markers, stripped, the empty
\* ones left out.
RECURSIVE StrippedNonEmpty(_)
StrippedNonEmpty(pieces) ==
    IF pieces = <<>> THEN <<>>
    ELSE IF IsEmptyStr(Strip(Head(pieces)))
         THEN StrippedNonEmpty(Tail(pieces))
         ELSE <<Strip(Head(pieces))>> \o StrippedNonEmpty(Tail(pieces))

SentencesOf(text) == StrippedNonEmpty(ReSplit(text))

\* The groups <<first, last>> that the cuts (a cut at k parts sentence k from
\* sentence k + 1) make of sentences lo..n.
RECURSIVE GroupsFrom(_, _, _, _)
GroupsFrom(lo, k, n, cuts) ==
    IF lo > n THEN <<>>
    ELSE IF k = n THEN <<<<lo, n>>>>
    ELSE IF k \in cuts THEN <<<<lo, k>>>> \o GroupsFrom(k + 1, k + 1, n, cuts)
    ELSE GroupsFrom(lo, k + 1, n, cuts)

\* Sentences lo..hi joined by single spaces, and their number of words.
RECURSIVE JoinSentences(_, _, _)
JoinSentences(ss, lo, hi) ==
    IF lo = hi THEN ss[lo] ELSE ss[lo] \o <<" ">> \o JoinSentences(ss, lo + 1, hi)

GroupWords(ss, g) == Len(Split(JoinSentences(ss, g[1], g[2])))

\* C22: when T has more than max_words words, the chunks are groups of
\* consecutive sentences, in order, such that a group of two or more
\* sentences has at most max_words words, a group with more than max_words
\* words is a single sentence, and a group is closed only where the next
\* sentence would have taken it over max_words.
C22_GreedyPacking ==
    chunker.pc = "returned" /\ Len(Split(chunker.text)) > chunker.max_words =>
       LET ss == SentencesOf(chunker.text)
           W == chunker.max_words
       IN \E cuts \in SUBSET (1..(Len(ss) - 1)) :
             LET groups == GroupsFrom(1, 1, Len(ss), cuts) IN
             /\ chunker.chunks =
                   [i \in DOMAIN groups |-> JoinSentences(ss, groups[i][1], groups[i][2])]
             /\ \A i \in DOMAIN groups :
                   /\ groups[i][2] > groups[i][1] => GroupWords(ss, groups[i]) <= W
                   /\ GroupWords(ss, groups[i]) > W =>
                         /\ groups[i][1] = groups[i][2]
                         /\ Len(Split(ss[groups[i][1]])) > W
                   /\ i < Len(groups) =>
                         GroupWords(ss, groups[i])
                            + Len(Split(ss[groups[i + 1][1]])) > W

\* a sentence longer than the bound is a chunk of its own, closed because the
\* next sentence would not fit
C22_Witness ==
    /\ chunker.pc = "returned"
    /\ chunker.text = <<"a", " ", "b", ".", "a">>
    /\ chunker.max_words = 1
    /\ chunker.chunks = << <<"a", " ", "b">>, <<"a">> >>

SeqRange(s) == {s[i] : i \in DOMAIN s}

\* C23: every text the engine is invoked with is a unit the chunker made of
\* the request's text: not empty, and not the whole text when the text has
\* more words than the bound.
C23_EngineInputBounded ==
    \A i \in DOMAIN synth.engine_inputs :
       LET unit == synth.engine_inputs[i] IN
       /\ ~IsEmptyStr(unit)
       /\ unit \in SeqRange(chunk_text(synth.text, batch_max_words))
       /\ Len(Split(synth.text)) > batch_max_words => unit # synth.text

\* The frames of request f whose socket send succeeded.
FramesSent(f) == {i \in DOMAIN sent[f] : sent[f][i].kind = "frame" /\ sent[f][i].res = "ok"}

CompleteDelivered(f, i) ==
    i \in DOMAIN sent[f] /\ sent[f][i].kind = "complete" /\ sent[f][i].res = "ok"

\* C24: when tts_stream_complete has been sent with success, its
\* total_chunks is the number of frames of that request whose send succeeded,
\* and every one of those frames was sent before it.
C24_CompletionCount ==
    \A f \in FlySockets : \A i \in DOMAIN sent[f] :
       CompleteDelivered(f, i) =>
          /\ sent[f][i].n = Cardinality(FramesSent(f))
          /\ \A j \in FramesSent(f) : j < i

\* a completion delivered after two frames
C24_Witness ==
    \E i \in DOMAIN sent["f1"] :
       /\ CompleteDelivered("f1", i)
       /\ sent["f1"][i].n = 2
       /\ Cardinality(FramesSent("f1")) = 2

\* The kinds of the events of a log that reached the destination, in order.
Observed(log) ==
    LET ok == SelectSeq(log, LAMBDA e : e.res = "ok")
    IN [i \in DOMAIN ok |-> ok[i].kind]

\* start first, then frames, then at most one terminal event, the last.
WellOrdered(kinds, start, frame, terminals) ==
    \/ kinds = <<>>
    \/ /\ kinds[1] = start
       /\ \A i \in 2..Len(kinds) :
             /\ kinds[i] \in {frame} \cup terminals
             /\ kinds[i] \in terminals => i = Len(kinds)

\* C25: what the destination of a valid stream request has observed is at
\* all times stream_start, then frames, then at most one terminal event
\* (stream_complete or error), with nothing of that request after it: in the
\* relay, at the direct endpoint and in the serverless job.
C25_EventOrder ==
    /\ \A f \in FlySockets :
          WellOrdered(Observed(sent[f]), "start", "frame", {"complete", "error"})
    /\ direct.msg = "stream_tts" /\ ~Blank(direct.text) =>
          WellOrdered(Observed(direct.out), "stream_start", "frame",
                      {"stream_complete", "error"})
    /\ ~Blank(job.text) =>
          WellOrdered(Observed(job.out), "stream_start", "audio_chunk",
                      {"stream_complete", "error"})

\* a relayed request observed as start, two frames and the completion
C25_Witness ==
    Observed(sent["f1"]) = <<"start", "frame", "frame", "complete">>

\* the same at the direct endpoint and in the job, the job ending in error
C25_WitnessDirect ==
    /\ Observed(direct.out) = <<"stream_start", "frame", "stream_complete">>
    /\ Observed(job.out) = <<"stream_start", "audio_chunk", "error">>

\* The consumer takes a segment from the queue of f in this step.
Reads(f) == req[f].pc = "waiting" /\ req'[f].pc # "waiting"

\* C26: when the segment the consumer takes has length zero, no frame is
\* produced for it, neither frame counter is incremented and the generator
\* is left; from then on no frame of that generation is produced and the
\* consumer takes no further segment from its queue.
C26_ZeroLengthEndsStream ==
    [][\A f \in FlySockets :
          /\ Reads(f) /\ Dequeue(pipe[f].queue)[1].seg = "z" =>
                /\ sent'[f] = sent[f]
                /\ pipe'[f].chunk_count = pipe[f].chunk_count
                /\ req'[f].chunk_count = req[f].chunk_count
                /\ pipe'[f].gen = "closing"
                /\ pipe'[f].exit = "marker"
          /\ pipe[f].exit = "marker" /\ pipe'[f].exit = "marker" =>
                /\ ~Reads(f)
                /\ FrameEntries(f)' = FrameEntries(f)
                /\ pipe'[f].chunk_count = pipe[f].chunk_count]_vars

\* a generation ended by a zero-length segment after one frame, with a
\* non-empty segment emitted that was never forwarded
C26_Witness ==
    /\ pipe["f1"].exit = "marker"
    /\ pipe["f1"].gen = "finished"
    /\ Len(FrameEntries("f1")) = 1
    /\ pipe["f1"].nonempty = 2

\* send_to_fly, called by handler f, begins its socket send in this step.
FlySendBegins(f) == fpc[f] = "recv" /\ fpc'[f] = "reply"

\* send_to_fly, called by handler f, returns from its socket send in this step.
FlySendEnds(f) == fpc[f] = "reply" /\ fpc'[f] # "reply"

\* Everything but the upstream link and the record of the return value.
BesidesLink ==
    <<now, sock, registry_vars, chandler_vars, request_vars, sweep, last_activity,
      idle_at_start, requested, standalone_vars>>

\* C27: send_to_fly never raises into its caller (the handler is back in its
\* receive loop); with no link set it returns False without sending; when
\* the socket send fails it returns False and fly_connection and
\* connection_time are both unset; when the send succeeds it returns True and
\* leaves the link as it is.
C27_UpstreamSendContract ==
    /\ [](\A f \in FlySockets :
            FlyTakes(f) /\ ~FlyLinked =>
               ENABLED (/\ FlyReceive(f, "health_check")
                        /\ fly_returned' = "False"
                        /\ UNCHANGED <<BesidesLink, fly_vars, fhandler_vars>>))
    /\ [][\A f \in FlySockets :
            /\ FlySendBegins(f) =>
                  /\ FlyLinked
                  /\ fsock'[f] = fly_connection
                  /\ UNCHANGED <<fly_vars, fly_returned>>
            /\ FlySendEnds(f) =>
                  /\ fpc'[f] = "recv"
                  /\ UNCHANGED BesidesLink
                  /\ IF SendSucceeds(fsock[f])
                     THEN fly_returned' = "True" /\ UNCHANGED fly_vars
                     ELSE /\ fly_returned' = "False"
                          /\ fly_connection' = None
                          /\ connection_time' = <<>>
            /\ fly_returned' # fly_returned /\ fpc' = fpc =>
                  /\ ~FlyLinked
                  /\ fly_returned' = "False"
                  /\ UNCHANGED <<BesidesLink, fly_vars, fhandler_vars>>]_vars

\* a send on the link failed: the call returned False and the link is unset,
\* the caller waiting for its next message
C27_Witness ==
    /\ fly_returned = "False"
    /\ fly_connection = None
    /\ connection_time = <<>>
    /\ sock["f1"] = "gone" /\ fpc["f1"] = "recv"
    /\ sock["f2"] = "open" /\ fpc["f2"] = "recv"

\* C28: a call whose voice is not a key of VOICE_CONFIGS goes on, past the
\* lookup, with the descriptor of aryan_default.
C28_UnknownVoiceFallsBack ==
    synth.pc # "called" /\ synth.voice_key \notin DOMAIN VOICE_CONFIGS =>
       synth.voice_description = VOICE_CONFIGS["aryan_default"]

\* The audio of the chunks whose generation produced audio, in chunk order.
KeptAudio(generated) ==
    LET kept == SelectSeq([i \in DOMAIN generated |-> i],
                          LAMBDA i : generated[i] = "audio")
    IN [j \in DOMAIN kept |-> Audio(kept[j])]

\* segments, in order, with one silence between each two and none elsewhere
Interleaved(final_audio, segments) ==
    /\ Len(final_audio) = 2 * Len(segments) - 1
    /\ \A j \in DOMAIN segments : final_audio[2 * j - 1] = segments[j]
    /\ \A j \in 1..(Len(segments) - 1) : final_audio[2 * j] = silence

\* C29 as stated: batch_synthesis returns one container with the audio of
\* all k text chunks in chunk order and k - 1 silences, one between each two
\* consecutive chunks.
C29_AllChunksConcatenated ==
    synth.method = "batch_synthesis" /\ synth.pc = "returned" =>
       /\ synth.result = "WAV"
       /\ Interleaved(synth.final_audio,
                      [i \in DOMAIN synth.text_chunks |-> Audio(i)])

\* C29, amended: batch_synthesis returns one container with the audio of
\* every chunk whose generation produced audio, in chunk order, with one
\* silence between each two consecutive segments and none before the first
\* or after the last (k segments, k - 1 silences); when no chunk produced
\* audio it returns None.
C29_KeptChunksConcatenated ==
    synth.method = "batch_synthesis" /\ synth.pc = "returned" =>
       LET segments == KeptAudio(synth.generated) IN
       /\ Len(synth.generated) = Len(synth.text_chunks)
       /\ synth.all_audio_chunks = segments
       /\ IF segments = <<>>
          THEN synth.result = None /\ synth.final_audio = <<>>
          ELSE synth.result = "WAV" /\ Interleaved(synth.final_audio, segments)

\* three chunks, the second without audio: two segments and one silence
C29_Witness ==
    /\ synth.pc = "returned"
    /\ synth.generated = <<"audio", "missing", "audio">>
    /\ synth.final_audio = <<Audio(1), silence, Audio(3)>>

PredictOver == predictor.pc \in {"finished", "closed", "raised"}

AbsentDestination ==
    TakesRequest /\ ~Registered(Registry, requested'.client_id)

\* C32: handling a tts_request whose client_id is missing or not registered
\* starts no generation, hands no frame to any socket, leaves the registry
\* and the upstream link as they are, and returns to the receive loop.
C32_AbsentDestination ==
    [][AbsentDestination =>
          LET f == requested'.f IN
          /\ pipe'[f] \in {NoPipe, pipe[f]}
          /\ \A g \in FlySockets \ {f} : pipe'[g] = pipe[g] /\ sent'[g] = sent[g]
          /\ \/ sent'[f] = sent[f]
             \/ \A i \in DOMAIN sent'[f] : sent'[f][i].kind # "frame"
          /\ fpc'[f] = "recv" /\ req'[f] = req[f]
          /\ UNCHANGED <<registry_vars, fly_vars, sock, chandler_vars>>]_vars

\* a request for a client that is not registered, made while another client
\* is: its tts_stream_start was refused at once and nothing started
C32_Witness ==
    /\ requested = [f |-> "f1", client_id |-> "B", text |-> <<"a">>]
    /\ sent["f1"] = <<Entry("start", 0, 0, None, "fail")>>
    /\ pipe["f1"] = NoPipe
    /\ fpc["f1"] = "recv"
    /\ Registered(Registry, "A")

\* The receive loop of client connection s ends in this step.
HandlerEnds(s) == cpc[s] # "done" /\ cpc'[s] = "done"

\* The id of s is registered to another socket than s.
Replaced(s) ==
    /\ Registered(Registry, PathClientId(s))
    /\ client_connections[PathClientId(s)] # s

\* C33: when the receive loop of a socket ends whose id has since been
\* registered to another socket, that registration stays as it is.
C33_StaleHandlerKeepsReplacement ==
    [][\A s \in ClientSockets :
          HandlerEnds(s) /\ Replaced(s) =>
             /\ Registered(Registry', PathClientId(s))
             /\ client_connections'[PathClientId(s)] = client_connections[PathClientId(s)]]_vars

\* The receive loop of upstream connection f ends in this step.
FlyHandlerEnds(f) == fpc[f] # "done" /\ fpc'[f] = "done"

\* C34: when the receive loop of an upstream socket ends while another
\* socket is the current link, fly_connection keeps pointing at that other
\* socket; and fly_connection is None only when no upstream socket is open
\* and being served.
C34_StaleUpstreamKeepsLink ==
    /\ [](fly_connection = None =>
            \A f \in FlySockets : ~(sock[f] = "open" /\ FlyServed(f)))
    /\ [][\A f \in FlySockets :
            FlyHandlerEnds(f) /\ FlyLinked /\ fly_connection # f =>
               fly_connection' = fly_connection]_vars

\* C35: when the sweep unregisters a client id, the socket registered under
\* that id at that moment is the socket the sweep found idle and closed: a
\* connection registered under the id during close() is not removed.
C35_SweepRemovesWhatItClosed ==
    [][SweepUnregisters /\ Registered(Registry, Head(sweep.ids)) =>
         client_connections[Head(sweep.ids)] = sweep.closing]_vars

\* C36: every frame and the terminal event of a relay-originated request goes
\* to the socket that received the request's tts_stream_start; a socket that
\* registers under the same client id mid-stream receives nothing of it.
C36_OneSocketPerRequest ==
    \A f \in FlySockets : \A i \in DOMAIN sent[f] :
        sent[f][1].sock # None /\ sent[f][i].sock # None =>
            sent[f][i].sock = sent[f][1].sock

\* C37: on the shared tts_service at most one generation producer thread is
\* running at any time, whatever the interleaving of stream requests.
C37_SingleInFlightGeneration ==
    Cardinality({f \in FlySockets : pipe[f].thread = "running"}) <= 1

\* C38: once the producer thread of a started stream_synthesis has ended,
\* normally or with an exception, the consumer loop eventually exits and the
\* request reaches its end: the handler does not wait for ever.
ProducerOver(f) == pipe[f].thread \in {"finished", "died"}
C38_StreamTerminates ==
    \A f \in FlySockets : (fpc[f] = "req" /\ ProducerOver(f)) ~> (fpc[f] # "req")

\* C39: for a text with at least one whitespace-separated token and a bound
\* of at least one word, chunk_text returns at least one chunk.
C39_ChunkerYieldsSomething ==
    /\ chunker.pc = "returned"
    /\ Len(Split(chunker.text)) >= 1
    /\ chunker.max_words >= 1
    => chunker.chunks # <<>>

\* C40: in every reachable state of ClientConnectionManager the key set of
\* client_connections equals the key set of connection_times.
C40_RegistryAligned == DOMAIN client_connections = DOMAIN connection_times

\* the sweep has unregistered idle client A and left B, which connected later
C40_Witness ==
    /\ sweep.pc = "sleep"
    /\ <<"A", "s1">> \in idle_at_start
    /\ ~Registered(Registry, "A")
    /\ DOMAIN client_connections = {"B"}
    /\ DOMAIN connection_times = {"B"}
====
